---- MODULE Spec2Model ----
(***************************************************************************)
(* devlog-desk: the store of categories, sprints and daily entries kept    *)
(* in SQLite by the Tauri backend (src-tauri/src/main.rs) and read by the  *)
(* terminal client (src-tauri/src/bin/devlog-cli.rs).                      *)
(*                                                                         *)
(* Text is modelled as a sequence of one-character strings, so that        *)
(* trimming, case folding, prefix stripping, number parsing and            *)
(* formatting are computed character by character as the code does.        *)
(* A u32 is modelled by its canonical decimal digits, which keeps the real *)
(* width 0..4294967295.  A table is the sequence of its rows in rowid      *)
(* order.  created_at values are RFC 3339 UTC instants; only their order   *)
(* is used by the code, so they are modelled by naturals.                  *)
(***************************************************************************)
EXTENDS Naturals, Integers, Sequences, FiniteSets, TLC

\* The absent value of an Option<String>; it is not a string, since every
\* element of a string is a single character
None == <<"none">>

\* The outcome of an arithmetic overflow in a build with overflow checks
Panic == <<"panic">>

(***************************************************************************)
(* Characters and strings                                                  *)
(***************************************************************************)
Digit == <<"0", "1", "2", "3", "4", "5", "6", "7", "8", "9">>

UpperLetters ==
  <<"A", "B", "C", "D", "E", "F", "G", "H", "I", "J", "K", "L", "M",
    "N", "O", "P", "Q", "R", "S", "T", "U", "V", "W", "X", "Y", "Z">>

LowerLetters ==
  <<"a", "b", "c", "d", "e", "f", "g", "h", "i", "j", "k", "l", "m",
    "n", "o", "p", "q", "r", "s", "t", "u", "v", "w", "x", "y", "z">>

\* One letter outside ASCII in its two cases, U+00C9 and U+00E9, each a single
\* character
UpperEAcute == "U+00C9"

LowerEAcute == "U+00E9"

\* The characters used, in the order of their UTF-8 encodings (the order of
\* Rust's str comparison).
Chars ==
  <<" ", "+", "-">> \o Digit \o UpperLetters \o <<"_">> \o LowerLetters
    \o <<UpperEAcute, LowerEAcute>>

Range(s) == {s[i] : i \in DOMAIN s}

OrdTable == [c \in Range(Chars) |-> CHOOSE i \in DOMAIN Chars : Chars[i] = c]

Ord(c) == OrdTable[c]

IsDigit(c) == c \in Range(Digit)

IsUpper(c) == c \in Range(UpperLetters)

IsLower(c) == c \in Range(LowerLetters)

IsWhitespace(c) == c = " "

DigitValTable == [c \in Range(Digit) |-> (CHOOSE i \in DOMAIN Digit : Digit[i] = c) - 1]

DigitVal(c) == DigitValTable[c]

LowerTable ==
  [c \in Range(Chars) |->
     IF IsUpper(c)
     THEN LowerLetters[CHOOSE i \in DOMAIN UpperLetters : UpperLetters[i] = c]
     ELSE c]

UpperTable ==
  [c \in Range(Chars) |->
     IF IsLower(c)
     THEN UpperLetters[CHOOSE i \in DOMAIN LowerLetters : LowerLetters[i] = c]
     ELSE c]

\* char::to_ascii_lowercase / to_ascii_uppercase
ToAsciiLowerChar(c) == LowerTable[c]

ToAsciiUpperChar(c) == UpperTable[c]

\* str::to_ascii_lowercase, also SQLite's lower() and NOCASE folding
ToAsciiLowercase(s) == [i \in DOMAIN s |-> ToAsciiLowerChar(s[i])]

Drop(s, n) == SubSeq(s, n + 1, Len(s))

RECURSIVE TrimStart(_)
TrimStart(s) ==
  IF s # <<>> /\ IsWhitespace(Head(s)) THEN TrimStart(Tail(s)) ELSE s

RECURSIVE TrimEnd(_)
TrimEnd(s) ==
  IF s # <<>> /\ IsWhitespace(s[Len(s)])
  THEN TrimEnd(SubSeq(s, 1, Len(s) - 1))
  ELSE s

\* str::trim
Trim(s) == TrimEnd(TrimStart(s))

\* str::trim_start_matches(char)
RECURSIVE TrimStartMatches(_, _)
TrimStartMatches(s, c) ==
  IF s # <<>> /\ Head(s) = c THEN TrimStartMatches(Tail(s), c) ELSE s

StartsWith(s, p) == Len(s) >= Len(p) /\ SubSeq(s, 1, Len(p)) = p

\* str::strip_prefix: the rest of s after p, or None
StripPrefix(s, p) == IF StartsWith(s, p) THEN Drop(s, Len(p)) ELSE None

\* Ordering of str: lexicographic by character code
RECURSIVE StrLess(_, _)
StrLess(a, b) ==
  IF b = <<>> THEN FALSE
  ELSE IF a = <<>> THEN TRUE
  ELSE IF Head(a) = Head(b) THEN StrLess(Tail(a), Tail(b))
  ELSE Ord(Head(a)) < Ord(Head(b))

StrLeq(a, b) == a = b \/ StrLess(a, b)

AllDigits(s) == \A i \in DOMAIN s : IsDigit(s[i])

(***************************************************************************)
(* u32                                                                     *)
(***************************************************************************)
U32Max == <<"4", "2", "9", "4", "9", "6", "7", "2", "9", "5">>

\* Canonical decimal digits: no leading zero except for zero itself
Canonical(ds) ==
  LET t == TrimStartMatches(ds, "0") IN IF t = <<>> THEN <<"0">> ELSE t

\* Order of two canonical numerals
NumLess(a, b) ==
  \/ Len(a) < Len(b)
  \/ Len(a) = Len(b) /\ StrLess(a, b)

\* str::parse::<u32>: an optional '+', then one or more digits, in range
ParseU32(s) ==
  LET body == IF s # <<>> /\ Head(s) = "+" THEN Tail(s) ELSE s
  IN  IF body = <<>> \/ ~AllDigits(body) THEN None
      ELSE IF NumLess(U32Max, Canonical(body)) THEN None
      ELSE Canonical(body)

RECURSIVE Incr(_)
Incr(ds) ==
  IF ds = <<>> THEN <<"1">>
  ELSE LET last == ds[Len(ds)]
           init == SubSeq(ds, 1, Len(ds) - 1)
       IN  IF last = "9" THEN Incr(init) \o <<"0">>
           ELSE init \o <<Digit[DigitVal(last) + 2]>>

\* n + 1 on u32: in a build with overflow checks the addition panics at
\* u32::MAX, in a build without them it wraps to 0
AddOne(n, checked) ==
  IF n = U32Max THEN (IF checked THEN Panic ELSE <<"0">>) ELSE Incr(n)

RECURSIVE NatDigits(_)
NatDigits(n) ==
  IF n < 10 THEN <<Digit[n + 1]>>
  ELSE NatDigits(n \div 10) \o <<Digit[(n % 10) + 1]>>

(***************************************************************************)
(* Helpers of main.rs                                                      *)
(***************************************************************************)
S_sprint == <<"s", "p", "r", "i", "n", "t">>

\* sprint_number: the u32 a code or a name carries, or None
sprint_number(raw) ==
  LET value == ToAsciiLowercase(Trim(raw)) IN
  IF value = <<>> THEN None
  ELSE IF ParseU32(value) # None THEN ParseU32(value)
  ELSE
    LET rest ==
          IF StripPrefix(value, S_sprint \o <<"-">>) # None
          THEN StripPrefix(value, S_sprint \o <<"-">>)
          ELSE IF StripPrefix(value, S_sprint \o <<" ">>) # None
          THEN StripPrefix(value, S_sprint \o <<" ">>)
          ELSE StripPrefix(value, S_sprint)
    IN  IF rest = None THEN None
        ELSE ParseU32(Trim(TrimStartMatches(TrimStartMatches(Trim(rest), "-"), "_")))

\* format_sprint_code: "sprint-{number}"
format_sprint_code(number) == S_sprint \o <<"-">> \o number

\* The number taken from the name first and from the code only when the name
\* has none
NameOrCodeNumber(code, name) ==
  IF sprint_number(name) # None THEN sprint_number(name) ELSE sprint_number(code)

\* sprint_number(code).or_else(|| sprint_number(name))
CodeOrNameNumber(code, name) ==
  IF sprint_number(code) # None THEN sprint_number(code) ELSE sprint_number(name)

IsAsciiAlphanumeric(c) == IsDigit(c) \/ IsUpper(c) \/ IsLower(c)

RECURSIVE SlugifyFrom(_, _)
SlugifyFrom(raw, out) ==
  IF raw = <<>> THEN out
  ELSE LET ch == Head(raw) IN
       IF IsAsciiAlphanumeric(ch)
       THEN SlugifyFrom(Tail(raw), Append(out, ToAsciiLowerChar(ch)))
       ELSE IF (IsWhitespace(ch) \/ ch = "-" \/ ch = "_")
               /\ ~(out # <<>> /\ out[Len(out)] = "-")
       THEN SlugifyFrom(Tail(raw), Append(out, "-"))
       ELSE SlugifyFrom(Tail(raw), out)

RECURSIVE TrimEndMatches(_, _)
TrimEndMatches(s, c) ==
  IF s # <<>> /\ s[Len(s)] = c
  THEN TrimEndMatches(SubSeq(s, 1, Len(s) - 1), c)
  ELSE s

\* slugify
slugify(raw) ==
  LET trimmed == TrimEndMatches(TrimStartMatches(SlugifyFrom(raw, <<>>), "-"), "-")
  IN  IF trimmed = <<>> THEN <<"v", "a", "l", "u", "e">> ELSE trimmed

\* str::split_whitespace, as the sequence of the words
RECURSIVE SplitWhitespace(_, _, _)
SplitWhitespace(s, word, acc) ==
  IF s = <<>> THEN (IF word = <<>> THEN acc ELSE Append(acc, word))
  ELSE IF IsWhitespace(Head(s))
  THEN SplitWhitespace(Tail(s), <<>>, IF word = <<>> THEN acc ELSE Append(acc, word))
  ELSE SplitWhitespace(Tail(s), Append(word, Head(s)), acc)

Capitalize(word) ==
  <<ToAsciiUpperChar(Head(word))>> \o ToAsciiLowercase(Tail(word))

RECURSIVE JoinWords(_)
JoinWords(ws) ==
  IF ws = <<>> THEN <<>>
  ELSE IF Len(ws) = 1 THEN Capitalize(ws[1])
  ELSE Capitalize(ws[1]) \o <<" ">> \o JoinWords(Tail(ws))

\* humanize_category_id
humanize_category_id(raw) ==
  LET t     == Trim(raw)
      clean == [i \in DOMAIN t |-> IF t[i] \in {"-", "_"} THEN " " ELSE t[i]]
  IN  IF clean = <<>> THEN <<"C", "a", "t", "e", "g", "o", "r", "y">>
      ELSE JoinWords(SplitWhitespace(clean, <<>>, <<>>))

(***************************************************************************)
(* Calendar dates (chrono::NaiveDate)                                      *)
(***************************************************************************)
RECURSIVE DigitsValue(_)
DigitsValue(ds) ==
  IF ds = <<>> THEN 0
  ELSE 10 * DigitsValue(SubSeq(ds, 1, Len(ds) - 1)) + DigitVal(ds[Len(ds)])

\* The longest prefix of s made of digits, at most max characters long
RECURSIVE TakeDigits(_, _)
TakeDigits(s, max) ==
  IF max = 0 \/ s = <<>> \/ ~IsDigit(Head(s)) THEN <<>>
  ELSE <<Head(s)>> \o TakeDigits(Tail(s), max - 1)

IsLeapYear(y) == (y % 4 = 0 /\ y % 100 # 0) \/ y % 400 = 0

DaysInMonth(y, m) ==
  IF m = 2 THEN (IF IsLeapYear(y) THEN 29 ELSE 28)
  ELSE IF m \in {4, 6, 9, 11} THEN 30 ELSE 31

\* NaiveDate::parse_from_str(s, "%Y-%m-%d"): a year of one to four digits, a
\* month and a day of one or two digits, each after optional whitespace,
\* separated by '-', with nothing after the day; NoDate when it fails
NoDate == [y |-> 0, m |-> 0, d |-> 0]

ParseDate(s) ==
  LET s1 == TrimStart(s)
      yd == TakeDigits(s1, 4)
      r1 == Drop(s1, Len(yd))
      s2 == IF r1 # <<>> /\ Head(r1) = "-" THEN TrimStart(Tail(r1)) ELSE None
      md == IF s2 = None THEN <<>> ELSE TakeDigits(s2, 2)
      r2 == IF s2 = None THEN <<>> ELSE Drop(s2, Len(md))
      s3 == IF r2 # <<>> /\ Head(r2) = "-" THEN TrimStart(Tail(r2)) ELSE None
      dd == IF s3 = None THEN <<>> ELSE TakeDigits(s3, 2)
      r3 == IF s3 = None THEN None ELSE Drop(s3, Len(dd))
  IN  IF yd = <<>> \/ md = <<>> \/ dd = <<>> \/ r3 # <<>> THEN NoDate
      ELSE LET y == DigitsValue(yd)
               m == DigitsValue(md)
               d == DigitsValue(dd)
           IN  IF m \in 1..12 /\ d \in 1..DaysInMonth(y, m)
               THEN [y |-> y, m |-> m, d |-> d]
               ELSE NoDate

\* date + Duration::days(n), n >= 0
RECURSIVE AddDays(_, _)
AddDays(date, n) ==
  IF n = 0 THEN date
  ELSE IF date.d < DaysInMonth(date.y, date.m)
  THEN AddDays([date EXCEPT !.d = @ + 1], n - 1)
  ELSE IF date.m < 12
  THEN AddDays([date EXCEPT !.m = @ + 1, !.d = 1], n - 1)
  ELSE AddDays([y |-> date.y + 1, m |-> 1, d |-> 1], n - 1)

RECURSIVE ZeroPad(_, _)
ZeroPad(ds, width) == IF Len(ds) >= width THEN ds ELSE ZeroPad(<<"0">> \o ds, width)

\* NaiveDate::format("%Y-%m-%d")
FormatDate(date) ==
  ZeroPad(NatDigits(date.y), 4) \o <<"-">> \o ZeroPad(NatDigits(date.m), 2)
    \o <<"-">> \o ZeroPad(NatDigits(date.d), 2)

(***************************************************************************)
(* The SQLite schema (init_schema).  A database is a record of the three   *)
(* tables; a statement yields [err, db, n]: whether it failed, the         *)
(* database afterwards and the number of rows it changed.                  *)
(***************************************************************************)
EmptyDb == [categories |-> <<>>, sprints |-> <<>>, entries |-> <<>>]

Ids(rows) == {rows[i].id : i \in DOMAIN rows}

Codes(rows) == {rows[i].code : i \in DOMAIN rows}

\* COLLATE NOCASE equality of two strings
NocaseEq(a, b) == ToAsciiLowercase(a) = ToAsciiLowercase(b)

StmtOk(db, n) == [err |-> FALSE, db |-> db, n |-> n]

StmtErr(db) == [err |-> TRUE, db |-> db, n |-> 0]

\* categories: id TEXT PRIMARY KEY, name TEXT NOT NULL UNIQUE COLLATE NOCASE
CategoryConflict(db, row) ==
  \E i \in DOMAIN db.categories :
     db.categories[i].id = row.id \/ NocaseEq(db.categories[i].name, row.name)

\* Mutant of SprintConflict: code is not declared UNIQUE
SprintIdConflict(db, row) == \E i \in DOMAIN db.sprints : db.sprints[i].id = row.id

\* sprints: id TEXT PRIMARY KEY, code TEXT NOT NULL UNIQUE
SprintConflict(db, row) ==
  \E i \in DOMAIN db.sprints :
     db.sprints[i].id = row.id \/ db.sprints[i].code = row.code

\* entries: id TEXT PRIMARY KEY
EntryConflict(db, row) == row.id \in Ids(db.entries)

\* Mutant of EntryForeignKeysHold: the foreign keys are not enforced
ForeignKeysOff(db, row) == TRUE

\* entries: FOREIGN KEY (sprint_id) REFERENCES sprints(id),
\*          FOREIGN KEY (category_id) REFERENCES categories(id)
EntryForeignKeysHold(db, row) ==
  row.sprint_id \in Ids(db.sprints) /\ row.category_id \in Ids(db.categories)

\* INSERT INTO categories
InsertCategory(db, row) ==
  IF CategoryConflict(db, row) THEN StmtErr(db)
  ELSE StmtOk([db EXCEPT !.categories = Append(@, row)], 1)

\* INSERT OR IGNORE INTO categories
InsertOrIgnoreCategory(db, row) ==
  IF CategoryConflict(db, row) THEN StmtOk(db, 0) ELSE InsertCategory(db, row)

\* INSERT INTO sprints
InsertSprint(db, row) ==
  IF SprintConflict(db, row) THEN StmtErr(db)
  ELSE StmtOk([db EXCEPT !.sprints = Append(@, row)], 1)

\* INSERT OR IGNORE INTO sprints
InsertOrIgnoreSprint(db, row) ==
  IF SprintConflict(db, row) THEN StmtOk(db, 0) ELSE InsertSprint(db, row)

\* INSERT INTO entries: a foreign key violation or a duplicate id fails
InsertEntry(db, row) ==
  IF EntryConflict(db, row) \/ ~EntryForeignKeysHold(db, row) THEN StmtErr(db)
  ELSE StmtOk([db EXCEPT !.entries = Append(@, row)], 1)

\* INSERT OR IGNORE INTO entries: IGNORE skips a duplicate id, but a foreign
\* key violation still fails the statement
InsertOrIgnoreEntry(db, row) ==
  IF EntryConflict(db, row) THEN StmtOk(db, 0)
  ELSE InsertEntry(db, row)

\* UPDATE sprints SET code = ?1 WHERE id = ?2
SetSprintCode(db, code, id) ==
  IF id \notin Ids(db.sprints) THEN StmtOk(db, 0)
  ELSE IF \E i \in DOMAIN db.sprints :
             db.sprints[i].id # id /\ db.sprints[i].code = code
  THEN StmtErr(db)
  ELSE StmtOk([db EXCEPT !.sprints =
                 [i \in DOMAIN @ |-> IF @[i].id = id
                                     THEN [@[i] EXCEPT !.code = code]
                                     ELSE @[i]]], 1)

\* An update that writes the new name into the code as well
SetSprintNameAndCode(db, name, id) ==
  IF id \notin Ids(db.sprints) THEN StmtOk(db, 0)
  ELSE StmtOk([db EXCEPT !.sprints =
                 [i \in DOMAIN @ |-> IF @[i].id = id
                                     THEN [@[i] EXCEPT !.name = name, !.code = name]
                                     ELSE @[i]]], 1)

\* UPDATE sprints SET name = ?1 WHERE id = ?2
SetSprintName(db, name, id) ==
  IF id \notin Ids(db.sprints) THEN StmtOk(db, 0)
  ELSE StmtOk([db EXCEPT !.sprints =
                 [i \in DOMAIN @ |-> IF @[i].id = id
                                     THEN [@[i] EXCEPT !.name = name]
                                     ELSE @[i]]], 1)

\* UPDATE categories SET name = ?1 WHERE id = ?2
SetCategoryName(db, name, id) ==
  IF id \notin Ids(db.categories) THEN StmtOk(db, 0)
  ELSE IF \E i \in DOMAIN db.categories :
             db.categories[i].id # id /\ NocaseEq(db.categories[i].name, name)
  THEN StmtErr(db)
  ELSE StmtOk([db EXCEPT !.categories =
                 [i \in DOMAIN @ |-> IF @[i].id = id
                                     THEN [@[i] EXCEPT !.name = name]
                                     ELSE @[i]]], 1)

CountEntriesOfCategory(db, id) ==
  Cardinality({i \in DOMAIN db.entries : db.entries[i].category_id = id})

\* Mutant of UpdateEntriesCategory: the UPDATE has no WHERE clause
UpdateAllEntriesCategory(db, replacement, id) ==
  IF db.entries # <<>> /\ replacement \notin Ids(db.categories) THEN StmtErr(db)
  ELSE StmtOk([db EXCEPT !.entries =
                 [i \in DOMAIN @ |-> [@[i] EXCEPT !.category_id = replacement]]],
              Len(db.entries))

\* UPDATE entries SET category_id = ?1 WHERE category_id = ?2
UpdateEntriesCategory(db, replacement, id) ==
  LET n == CountEntriesOfCategory(db, id) IN
  IF n > 0 /\ replacement \notin Ids(db.categories) THEN StmtErr(db)
  ELSE StmtOk([db EXCEPT !.entries =
                 [i \in DOMAIN @ |-> IF @[i].category_id = id
                                     THEN [@[i] EXCEPT !.category_id = replacement]
                                     ELSE @[i]]], n)

\* DELETE FROM categories WHERE id = ?1 (entries.category_id ON DELETE RESTRICT)
DeleteCategoryRow(db, id) ==
  IF id \notin Ids(db.categories) THEN StmtOk(db, 0)
  ELSE IF CountEntriesOfCategory(db, id) > 0 THEN StmtErr(db)
  ELSE StmtOk([db EXCEPT !.categories = SelectSeq(@, LAMBDA r : r.id # id)], 1)

\* Mutant of DeleteSprintRow: the delete does not cascade to the entries
DeleteSprintRowOnly(db, id) ==
  IF id \notin Ids(db.sprints) THEN StmtOk(db, 0)
  ELSE StmtOk([db EXCEPT !.sprints = SelectSeq(@, LAMBDA r : r.id # id)], 1)

\* DELETE FROM sprints WHERE id = ?1 (entries.sprint_id ON DELETE CASCADE)
DeleteSprintRow(db, id) ==
  IF id \notin Ids(db.sprints) THEN StmtOk(db, 0)
  ELSE StmtOk([db EXCEPT !.sprints = SelectSeq(@, LAMBDA r : r.id # id),
                         !.entries = SelectSeq(@, LAMBDA r : r.sprint_id # id)], 1)

\* ORDER BY created_at, and Vec::sort_by on created_at: rows with equal
\* created_at keep their relative order
RECURSIVE InsertByCreatedAt(_, _)
InsertByCreatedAt(sorted, row) ==
  IF sorted = <<>> THEN <<row>>
  ELSE IF sorted[Len(sorted)].created_at <= row.created_at
  THEN Append(sorted, row)
  ELSE Append(InsertByCreatedAt(SubSeq(sorted, 1, Len(sorted) - 1), row),
              sorted[Len(sorted)])

RECURSIVE OrderByCreatedAt(_)
OrderByCreatedAt(rows) ==
  IF rows = <<>> THEN <<>>
  ELSE InsertByCreatedAt(OrderByCreatedAt(SubSeq(rows, 1, Len(rows) - 1)),
                         rows[Len(rows)])

(***************************************************************************)
(* Active sprint                                                           *)
(***************************************************************************)
\* sort_by(|left, right| right.created_at.cmp(&left.created_at)): newest
\* first, rows with equal created_at keep their relative order
RECURSIVE InsertNewestFirst(_, _)
InsertNewestFirst(sorted, row) ==
  IF sorted = <<>> THEN <<row>>
  ELSE IF sorted[Len(sorted)].created_at >= row.created_at
  THEN Append(sorted, row)
  ELSE Append(InsertNewestFirst(SubSeq(sorted, 1, Len(sorted) - 1), row),
              sorted[Len(sorted)])

\* The rows sorted the other way round, oldest first
OldestFirst(rows) == OrderByCreatedAt(rows)

RECURSIVE NewestFirst(_)
NewestFirst(rows) ==
  IF rows = <<>> THEN <<>>
  ELSE InsertNewestFirst(NewestFirst(SubSeq(rows, 1, Len(rows) - 1)),
                         rows[Len(rows)])

Ongoing(sprint, today) ==
  /\ StrLeq(sprint.start_date, today)
  /\ (sprint.end_date = None \/ StrLeq(today, sprint.end_date))

\* The selection without the fallback to the newest sprint
PickOngoingSprintId(sprints, today) ==
  LET newest_first == NewestFirst(sprints)
      hits == {i \in DOMAIN newest_first : Ongoing(newest_first[i], today)}
  IN  IF hits # {}
      THEN newest_first[CHOOSE i \in hits : \A j \in hits : i <= j].id
      ELSE None

\* pick_active_sprint_id, with today = Local::now() as "%Y-%m-%d"
pick_active_sprint_id(sprints, today) ==
  IF sprints = <<>> THEN None
  ELSE LET newest_first == NewestFirst(sprints)
           hits == {i \in DOMAIN newest_first : Ongoing(newest_first[i], today)}
       IN  IF hits # {}
           THEN newest_first[CHOOSE i \in hits : \A j \in hits : i <= j].id
           ELSE newest_first[1].id

(***************************************************************************)
(* Legacy import                                                           *)
(***************************************************************************)
NumMax(a, b) == IF NumLess(a, b) THEN b ELSE a

RECURSIVE HighestNumber(_)
HighestNumber(pairs) ==
  IF pairs = <<>> THEN <<"0">>
  ELSE LET n == CodeOrNameNumber(Head(pairs).code, Head(pairs).name)
           rest == HighestNumber(Tail(pairs))
       IN  IF n = None THEN rest ELSE NumMax(n, rest)

\* default_categories, created at instant t
default_categories(t) ==
  << [id |-> <<"p", "r", "e", "v", "i", "e", "w">>,
      name |-> <<"P", "r", "e", "v", "i", "e", "w">>, created_at |-> t],
     [id |-> <<"m", "e", "e", "t", "i", "n", "g">>,
      name |-> <<"M", "e", "e", "t", "i", "n", "g">>, created_at |-> t],
     [id |-> <<"t", "a", "s", "k", "s">>,
      name |-> <<"T", "a", "s", "k", "s">>, created_at |-> t] >>

\* ensure_default_categories (on the parsed snapshot)
ensure_default_categories(data, t) ==
  IF data.categories = <<>>
  THEN [data EXCEPT !.categories = default_categories(t)]
  ELSE data

\* The indices of the rows, ordered by created_at
IndexList(rows) ==
  LET keyed == [i \in DOMAIN rows |-> [idx |-> i, created_at |-> rows[i].created_at]]
      sorted == OrderByCreatedAt(keyed)
  IN  [i \in DOMAIN sorted |-> sorted[i].idx]

\* First loop of assign_missing_sprint_codes: an empty code is taken from the
\* name, a parseable code is rewritten in canonical form
RECURSIVE AssignParsedCodes(_, _)
AssignParsedCodes(sprints, order) ==
  IF order = <<>> THEN sprints
  ELSE LET sprint == sprints[Head(order)]
           next ==
             IF Trim(sprint.code) = <<>>
             THEN IF sprint_number(sprint.name) # None
                  THEN [sprint EXCEPT !.code = format_sprint_code(sprint_number(sprint.name))]
                  ELSE sprint
             ELSE IF sprint_number(sprint.code) # None
                  THEN [sprint EXCEPT !.code = format_sprint_code(sprint_number(sprint.code))]
                  ELSE sprint
       IN  AssignParsedCodes([sprints EXCEPT ![Head(order)] = next], Tail(order))

\* Second loop: every sprint whose code is still empty gets highest + 1.
\* panic is set when the addition overflows in a checked build.
RECURSIVE AssignFreshCodes(_, _, _, _)
AssignFreshCodes(sprints, order, highest, checked) ==
  IF order = <<>> THEN [panic |-> FALSE, sprints |-> sprints]
  ELSE IF Trim(sprints[Head(order)].code) = <<>>
  THEN LET next == AddOne(highest, checked) IN
       IF next = Panic THEN [panic |-> TRUE, sprints |-> sprints]
       ELSE AssignFreshCodes(
              [sprints EXCEPT ![Head(order)].code = format_sprint_code(next)],
              Tail(order), next, checked)
  ELSE AssignFreshCodes(sprints, Tail(order), highest, checked)

\* assign_missing_sprint_codes: [panic, sprints], the sprints of the snapshot
\* afterwards.  highest starts at the largest number any sprint carries, so
\* the first loop never raises it.
assign_missing_sprint_codes(sprints, checked) ==
  LET order == IndexList(sprints)
      highest == HighestNumber(sprints)
  IN  AssignFreshCodes(AssignParsedCodes(sprints, order), order, highest, checked)

\* main.rs 433-451: a category is synthesized for each entry whose trimmed
\* category_id is not the id of a category of the snapshot
RECURSIVE SynthesizeCategories(_, _, _)
SynthesizeCategories(categories, entries, t) ==
  IF entries = <<>> THEN categories
  ELSE LET category_id == Trim(Head(entries).category_id) IN
       IF category_id = <<>> \/ category_id \in Ids(categories)
       THEN SynthesizeCategories(categories, Tail(entries), t)
       ELSE SynthesizeCategories(
              Append(categories, [id |-> category_id,
                                  name |-> humanize_category_id(category_id),
                                  created_at |-> t]),
              Tail(entries), t)

\* main.rs 457-467
RECURSIVE MigrateCategories(_, _)
MigrateCategories(db, categories) ==
  IF categories = <<>> THEN db
  ELSE LET category == Head(categories) IN
       IF Trim(category.id) = <<>> \/ Trim(category.name) = <<>>
       THEN MigrateCategories(db, Tail(categories))
       ELSE MigrateCategories(InsertOrIgnoreCategory(db, category).db, Tail(categories))

\* The row written for a sprint of the snapshot (main.rs 475-496)
MigratedSprintRow(sprint, t) ==
  LET code == IF Trim(sprint.code) = <<>>
              THEN format_sprint_code(NatDigits(t))
              ELSE Trim(sprint.code)
      name == IF Trim(sprint.name) = <<>> THEN code ELSE Trim(sprint.name)
  IN  [sprint EXCEPT !.code = code, !.name = name]

SprintIsMigrated(sprint) ==
  ~(Trim(sprint.id) = <<>> \/ Trim(sprint.start_date) = <<>>)

\* main.rs 469-501
RECURSIVE MigrateSprints(_, _, _)
MigrateSprints(db, sprints, t) ==
  IF sprints = <<>> THEN db
  ELSE IF ~SprintIsMigrated(Head(sprints))
  THEN MigrateSprints(db, Tail(sprints), t)
  ELSE MigrateSprints(InsertOrIgnoreSprint(db, MigratedSprintRow(Head(sprints), t)).db,
                      Tail(sprints), t)

\* migrated_sprint_ids: the ids of the sprints that were not skipped, whether
\* or not their INSERT OR IGNORE wrote a row
migrated_sprint_ids(sprints) ==
  {sprints[i].id : i \in {j \in DOMAIN sprints : SprintIsMigrated(sprints[j])}}

\* next_id(prefix) at instant ts
next_id(prefix, ts) == prefix \o <<"-">> \o NatDigits(ts)

S_entry == <<"e", "n", "t", "r", "y">>

S_import == <<"i", "m", "p", "o", "r", "t">>

\* main.rs 503-533: StmtErr as soon as one insert fails
RECURSIVE MigrateEntries(_, _, _, _)
MigrateEntries(db, entries, migrated, ts) ==
  IF entries = <<>> THEN StmtOk(db, 0)
  ELSE LET entry == Head(entries) IN
       IF \/ Trim(entry.sprint_id) = <<>>
          \/ Trim(entry.category_id) = <<>>
          \/ Trim(entry.title) = <<>>
          \/ Trim(entry.date) = <<>>
          \/ entry.sprint_id \notin migrated
       THEN MigrateEntries(db, Tail(entries), migrated, ts)
       ELSE LET row == IF Trim(entry.id) = <<>>
                       THEN [entry EXCEPT !.id = next_id(S_entry \o <<"-">> \o S_import, ts)]
                       ELSE entry
                ins == InsertOrIgnoreEntry(db, row)
            IN  IF ins.err THEN StmtErr(db)
                ELSE MigrateEntries(ins.db, Tail(entries), migrated, ts + 1)

\* Emptiness judged by the sprints and the entries alone
NoSprintsNoEntries(db) == db.sprints = <<>> /\ db.entries = <<>>

\* db_is_empty
db_is_empty(db) == db.categories = <<>> /\ db.sprints = <<>> /\ db.entries = <<>>

\* The absent snapshot file
NoFile == [categories |-> <<>>, sprints |-> <<>>, entries |-> <<>>, exists |-> FALSE]

\* The inserts written one by one without a transaction: a failure keeps
\* the rows inserted before it
MigrateWithoutRollback(db, ins) ==
  IF ins.err THEN [result |-> "failed to migrate entry", db |-> ins.db]
  ELSE [result |-> "ok", db |-> ins.db]

\* main.rs 453-538: the transaction that writes the snapshot.  ins is the
\* outcome of the entry inserts; a failure rolls back to db.
MigrateCommit(db, ins) ==
  IF ins.err THEN [result |-> "failed to migrate entry", db |-> db]
  ELSE [result |-> "ok", db |-> ins.db]

\* main.rs 431-538, with coded the outcome of assign_missing_sprint_codes
MigrateCoded(db, data, coded, t) ==
  IF coded.panic THEN [result |-> "panic", db |-> db]
  ELSE MigrateCommit(
         db,
         MigrateEntries(
           MigrateSprints(
             MigrateCategories(
               db, SynthesizeCategories(data.categories, data.entries, t)),
             coded.sprints, t),
           data.entries, migrated_sprint_ids(coded.sprints), t))

\* main.rs 429-538, with data the parsed snapshot after
\* ensure_default_categories
MigrateData(db, data, t, checked) ==
  MigrateCoded(db, data, assign_missing_sprint_codes(data.sprints, checked), t)

\* migrate_legacy_json_if_needed: [result, db].  The inserts run in one
\* transaction, so a failure leaves db as it was.
migrate_legacy_json_if_needed(db, legacy, t, checked) ==
  IF ~db_is_empty(db) THEN [result |-> "ok", db |-> db]
  ELSE IF ~legacy.exists THEN [result |-> "ok", db |-> db]
  ELSE MigrateData(db, ensure_default_categories(legacy, t), t, checked)

(***************************************************************************)
(* Opening the store                                                       *)
(***************************************************************************)
RECURSIVE InsertAll(_, _)
InsertAll(db, categories) ==
  IF categories = <<>> THEN db
  ELSE InsertAll(InsertCategory(db, Head(categories)).db, Tail(categories))

\* ensure_default_categories_db (main.rs)
ensure_default_categories_db(db, t) ==
  IF Len(db.categories) > 0 THEN db ELSE InsertAll(db, default_categories(t))

\* The smallest number from candidate on that is not in used; Panic when
\* stepping past u32::MAX in a checked build
RECURSIVE NextFree(_, _, _)
NextFree(candidate, used, checked) ==
  IF candidate = Panic THEN Panic
  ELSE IF candidate \in used THEN NextFree(AddOne(candidate, checked), used, checked)
  ELSE candidate

\* main.rs 592-606: the number a row gets; parsed is the number its code or
\* name carries, or None
ChooseNumber(parsed, used_numbers, highest, checked) ==
  IF parsed # None /\ parsed \notin used_numbers
  THEN parsed
  ELSE NextFree(AddOne(highest, checked), used_numbers, checked)

\* The scan of ensure_sprint_codes_db (main.rs 583-617): the code updates to
\* apply, in the order of the scan; panic when an addition overflowed
RECURSIVE PlanSprintCodes(_, _, _, _, _)
RECURSIVE PlanChosen(_, _, _, _, _, _)
PlanSprintCodes(rows, used_numbers, highest, updates, checked) ==
  IF rows = <<>> THEN [panic |-> FALSE, updates |-> updates]
  ELSE PlanChosen(rows, used_numbers, highest, updates, checked,
                  ChooseNumber(CodeOrNameNumber(Head(rows).code, Head(rows).name),
                               used_numbers, highest, checked))

\* main.rs 608-616 for the first of rows, whose number is chosen, and the
\* scan of the rest
PlanChosen(rows, used_numbers, highest, updates, checked, chosen) ==
  IF chosen = Panic THEN [panic |-> TRUE, updates |-> updates]
  ELSE PlanSprintCodes(
         Tail(rows),
         used_numbers \cup {chosen},
         NumMax(highest, chosen),
         IF Head(rows).code # format_sprint_code(chosen)
         THEN Append(updates, [id |-> Head(rows).id,
                               code |-> format_sprint_code(chosen)])
         ELSE updates,
         checked)

\* main.rs 619-625: the updates are separate statements; the first one that
\* fails ends the function and the earlier ones stay written
RECURSIVE ApplySprintCodes(_, _)
ApplySprintCodes(db, updates) ==
  IF updates = <<>> THEN [result |-> "ok", db |-> db]
  ELSE LET upd == SetSprintCode(db, Head(updates).code, Head(updates).id) IN
       IF upd.err THEN [result |-> "failed to normalize sprint code", db |-> db]
       ELSE ApplySprintCodes(upd.db, Tail(updates))

\* main.rs 619-627 after the scan with outcome plan
ApplyPlan(db, plan) ==
  IF plan.panic THEN [result |-> "panic", db |-> db]
  ELSE ApplySprintCodes(db, plan.updates)

\* ensure_sprint_codes_db: [result, db]
ensure_sprint_codes_db(db, checked) ==
  ApplyPlan(db, PlanSprintCodes(OrderByCreatedAt(db.sprints), {}, <<"0">>, <<>>, checked))

\* main.rs 636-640: open_db after migrate_legacy_json_if_needed with outcome
\* migrated
OpenMigrated(migrated, t, checked) ==
  IF migrated.result # "ok" THEN migrated
  ELSE ensure_sprint_codes_db(ensure_default_categories_db(migrated.db, t), checked)

\* open_db (main.rs): [result, db]
open_db(db, legacy, t, checked) ==
  OpenMigrated(migrate_legacy_json_if_needed(db, legacy, t, checked), t, checked)

\* The defaults seeded by the terminal client (devlog-cli.rs 553-559)
cli_default_categories(t) ==
  << [id |-> <<"p", "r", "-", "r", "e", "v", "i", "e", "w", "s">>,
      name |-> <<"P", "R", "-", "R", "e", "v", "i", "e", "w", "s">>, created_at |-> t],
     [id |-> <<"m", "e", "e", "t", "i", "n", "g">>,
      name |-> <<"M", "e", "e", "t", "i", "n", "g">>, created_at |-> t],
     [id |-> <<"t", "a", "s", "k", "s">>,
      name |-> <<"T", "a", "s", "k", "s">>, created_at |-> t] >>

\* open_db (devlog-cli.rs): init_schema and default seeding only
cli_open_db(db, t) ==
  IF Len(db.categories) > 0 THEN db ELSE InsertAll(db, cli_default_categories(t))

(***************************************************************************)
(* The commands of main.rs.  Each yields [result, db, opened]: the message *)
(* returned ("ok" on success, "panic" when the command panicked), the      *)
(* database afterwards, and whether the command's open_db succeeded.       *)
(* db is the database before the command, conn the outcome of the open_db  *)
(* that the command calls once its arguments are validated, t the instant  *)
(* of the command, checked whether the build has overflow checks.          *)
(***************************************************************************)
Out(result, db, opened) == [result |-> result, db |-> db, opened |-> opened]

\* category_name_exists; excluding_id is None or an id
category_name_exists(db, name, excluding_id) ==
  \E i \in DOMAIN db.categories :
     /\ ToAsciiLowercase(db.categories[i].name) = ToAsciiLowercase(name)
     /\ (excluding_id = None \/ db.categories[i].id # excluding_id)

\* Mutant of category_exists: every id is taken to name a category
AnyCategoryExists(db, id) == TRUE

category_exists(db, id) == id \in Ids(db.categories)

sprint_exists(db, id) == id \in Ids(db.sprints)

S_cat == <<"c", "a", "t">>

\* create_category
create_category(db, conn, t, checked, input) ==
  LET name == Trim(input.name) IN
  IF name = <<>> THEN Out("category name is required", db, FALSE)
  ELSE
    IF conn.result # "ok" THEN Out(conn.result, conn.db, FALSE)
    ELSE IF category_name_exists(conn.db, name, None)
    THEN Out("category name already exists", conn.db, TRUE)
    ELSE
      LET category == [id |-> S_cat \o <<"-">> \o slugify(name) \o <<"-">> \o NatDigits(t),
                       name |-> name,
                       created_at |-> t]
          ins == InsertCategory(conn.db, category)
      IN  IF ins.err THEN Out("failed to create category", conn.db, TRUE)
          ELSE Out("ok", ins.db, TRUE)

\* update_category
update_category(db, conn, t, checked, input) ==
  LET id == Trim(input.id)
      name == Trim(input.name)
  IN
  IF id = <<>> THEN Out("category id is required", db, FALSE)
  ELSE IF name = <<>> THEN Out("category name is required", db, FALSE)
  ELSE
    IF conn.result # "ok" THEN Out(conn.result, conn.db, FALSE)
    ELSE IF category_name_exists(conn.db, name, id)
    THEN Out("category name already exists", conn.db, TRUE)
    ELSE
      LET upd == SetCategoryName(conn.db, name, id) IN
      IF upd.err THEN Out("failed to update category", conn.db, TRUE)
      ELSE IF upd.n = 0 THEN Out("category not found", conn.db, TRUE)
      ELSE Out("ok", upd.db, TRUE)

\* SELECT id FROM categories WHERE id <> ?1 ORDER BY created_at LIMIT 1
OldestOtherCategory(db, category_id) ==
  LET others == SelectSeq(OrderByCreatedAt(db.categories), LAMBDA r : r.id # category_id)
  IN  IF others = <<>> THEN None ELSE others[1].id

\* Mutant of IsLastCategory: the guard is off by one
NoCategoryLeft(db) == Len(db.categories) < 1

\* main.rs 889-898: total_categories <= 1
IsLastCategory(db) == Len(db.categories) <= 1

\* delete_category.  The reassignment and the removal are two statements on
\* a connection in autocommit mode; delete_fails is a storage failure of the
\* DELETE statement (main.rs 948-950).
delete_category(db, conn, t, checked, input, delete_fails) ==
  LET category_id == Trim(input.id) IN
  IF category_id = <<>> THEN Out("category id is required", db, FALSE)
  ELSE
    IF conn.result # "ok" THEN Out(conn.result, conn.db, FALSE)
    ELSE IF IsLastCategory(conn.db)
    THEN Out("at least one category is required", conn.db, TRUE)
    ELSE IF ~category_exists(conn.db, category_id)
    THEN Out("category not found", conn.db, TRUE)
    ELSE
      LET used_count == CountEntriesOfCategory(conn.db, category_id)
          replacement_from_input ==
            IF input.replacement_category_id = None
               \/ Trim(input.replacement_category_id) = <<>>
            THEN None
            ELSE Trim(input.replacement_category_id)
          replacement_id ==
            IF replacement_from_input # None THEN replacement_from_input
            ELSE OldestOtherCategory(conn.db, category_id)
          reassigned == UpdateEntriesCategory(conn.db, replacement_id, category_id)
          db1 == IF used_count > 0 THEN reassigned.db ELSE conn.db
          del == DeleteCategoryRow(db1, category_id)
      IN
      IF used_count > 0 /\ replacement_id = None
      THEN Out("no replacement category available", conn.db, TRUE)
      ELSE IF used_count > 0 /\ replacement_id = category_id
      THEN Out("replacement category must be different", conn.db, TRUE)
      ELSE IF used_count > 0 /\ ~category_exists(conn.db, replacement_id)
      THEN Out("replacement category not found", conn.db, TRUE)
      ELSE IF used_count > 0 /\ reassigned.err
      THEN Out("failed to reassign category entries", conn.db, TRUE)
      ELSE IF delete_fails \/ del.err THEN Out("failed to delete category", db1, TRUE)
      ELSE IF del.n = 0 THEN Out("category not found", db1, TRUE)
      ELSE Out("ok", del.db, TRUE)

\* next_sprint_code_db: the code of the next sprint, or Panic
next_sprint_code_db(db, checked) ==
  LET next == AddOne(HighestNumber(db.sprints), checked) IN
  IF next = Panic THEN Panic ELSE format_sprint_code(next)

\* main.rs 1003-1012: the INSERT of the new sprint; ins is its outcome
CreateSprintInserted(conn, ins) ==
  IF ins.err THEN Out("failed to create sprint", conn.db, TRUE)
  ELSE Out("ok", ins.db, TRUE)

\* main.rs 990-1012: create_sprint once the code is allocated
CreateSprintCoded(conn, t, input, calculated_end, code) ==
  IF code = Panic THEN Out("panic", conn.db, TRUE)
  ELSE CreateSprintInserted(
         conn,
         InsertSprint(conn.db,
                      [id |-> next_id(S_sprint, t),
                       code |-> code,
                       name |-> IF input.name = None \/ Trim(input.name) = <<>>
                                THEN code
                                ELSE Trim(input.name),
                       start_date |-> Trim(input.start_date),
                       end_date |-> calculated_end,
                       created_at |-> t]))

\* create_sprint without the check of the duration, the end being the start
\* plus the duration
CreateSprintAnyDuration(db, conn, t, checked, input, parsed_start, duration_days) ==
  IF Trim(input.start_date) = <<>> THEN Out("start_date is required", db, FALSE)
  ELSE IF parsed_start = NoDate
  THEN Out("start_date must be in YYYY-MM-DD format", db, FALSE)
  ELSE IF conn.result # "ok" THEN Out(conn.result, conn.db, FALSE)
  ELSE CreateSprintCoded(conn, t, input,
                         FormatDate(AddDays(parsed_start, duration_days)),
                         next_sprint_code_db(conn.db, checked))

\* main.rs 966-1012: create_sprint with the parsed start date and the duration
CreateSprintParsed(db, conn, t, checked, input, parsed_start, duration_days) ==
  IF Trim(input.start_date) = <<>> THEN Out("start_date is required", db, FALSE)
  ELSE IF parsed_start = NoDate
  THEN Out("start_date must be in YYYY-MM-DD format", db, FALSE)
  ELSE IF duration_days # 7 /\ duration_days # 14
  THEN Out("duration_days must be 7 or 14", db, FALSE)
  ELSE IF conn.result # "ok" THEN Out(conn.result, conn.db, FALSE)
  ELSE CreateSprintCoded(conn, t, input,
                         FormatDate(AddDays(parsed_start, duration_days - 1)),
                         next_sprint_code_db(conn.db, checked))

\* create_sprint; input.duration_days is <<>> or <<n>>, input.name is None
\* or a string
create_sprint(db, conn, t, checked, input) ==
  CreateSprintParsed(db, conn, t, checked, input, ParseDate(Trim(input.start_date)),
                     IF input.duration_days = <<>> THEN 14 ELSE input.duration_days[1])

\* update_sprint_name
update_sprint_name(db, conn, t, checked, input) ==
  LET sprint_id == Trim(input.id)
      name == Trim(input.name)
  IN
  IF sprint_id = <<>> THEN Out("sprint id is required", db, FALSE)
  ELSE IF name = <<>> THEN Out("sprint name is required", db, FALSE)
  ELSE
    IF conn.result # "ok" THEN Out(conn.result, conn.db, FALSE)
    ELSE
      LET upd == SetSprintName(conn.db, name, sprint_id) IN
      IF upd.n = 0 THEN Out("sprint not found", conn.db, TRUE)
      ELSE Out("ok", upd.db, TRUE)

\* delete_sprint; today is Local::now() as "%Y-%m-%d"
delete_sprint(db, conn, t, checked, input, today) ==
  LET sprint_id == Trim(input.id) IN
  IF sprint_id = <<>> THEN Out("sprint id is required", db, FALSE)
  ELSE
    IF conn.result # "ok" THEN Out(conn.result, conn.db, FALSE)
    ELSE IF pick_active_sprint_id(OrderByCreatedAt(conn.db.sprints), today) = sprint_id
    THEN Out("cannot delete the active sprint", conn.db, TRUE)
    ELSE
      LET del == DeleteSprintRow(conn.db, sprint_id) IN
      IF del.n = 0 THEN Out("sprint not found", conn.db, TRUE)
      ELSE Out("ok", del.db, TRUE)

\* The details trimmed and kept even when nothing is left
TrimmedDetails(details) == IF details = None THEN None ELSE Trim(details)

\* main.rs 1124-1131: the details of the stored entry; details is None or a
\* string
NormalizedDetails(details) ==
  IF details = None \/ Trim(details) = <<>> THEN None ELSE Trim(details)

\* add_daily_entry; input.details is None or a string
add_daily_entry(db, conn, t, checked, input) ==
  LET title == Trim(input.title) IN
  IF title = <<>> THEN Out("title is required", db, FALSE)
  ELSE IF Trim(input.date) = <<>> THEN Out("date is required", db, FALSE)
  ELSE IF Trim(input.category_id) = <<>> THEN Out("category_id is required", db, FALSE)
  ELSE
    IF conn.result # "ok" THEN Out(conn.result, conn.db, FALSE)
    ELSE IF ~sprint_exists(conn.db, input.sprint_id)
    THEN Out("the selected sprint does not exist", conn.db, TRUE)
    ELSE IF ~category_exists(conn.db, input.category_id)
    THEN Out("the selected category does not exist", conn.db, TRUE)
    ELSE
      LET entry == [id |-> next_id(S_entry, t),
                    sprint_id |-> input.sprint_id,
                    date |-> input.date,
                    category_id |-> input.category_id,
                    title |-> title,
                    details |-> NormalizedDetails(input.details),
                    created_at |-> t]
          ins == InsertEntry(conn.db, entry)
      IN  IF ins.err THEN Out("failed to add entry", conn.db, TRUE)
          ELSE Out("ok", ins.db, TRUE)

\* list_categories, list_sprints, list_entries_for_sprint: open_db and a read
list_command(db, conn) == Out(conn.result, conn.db, conn.result = "ok")

(***************************************************************************)
(* Reports.  The Markdown text is modelled as the sequence of its lines,   *)
(* each line a string without the line feed that ends it.                  *)
(***************************************************************************)
\* The order of the date alone
EntryDateLess(a, b) == StrLess(a.date, b.date)

\* The order of (date, category_id, created_at)
EntryKeyLess(a, b) ==
  \/ StrLess(a.date, b.date)
  \/ /\ a.date = b.date
     /\ \/ StrLess(a.category_id, b.category_id)
        \/ a.category_id = b.category_id /\ a.created_at < b.created_at

\* ORDER BY date, category_id, created_at, and the sort_by of generate_report:
\* rows with equal keys keep their relative order
RECURSIVE InsertByEntryKey(_, _)
InsertByEntryKey(sorted, row) ==
  IF sorted = <<>> THEN <<row>>
  ELSE IF ~EntryKeyLess(row, sorted[Len(sorted)])
  THEN Append(sorted, row)
  ELSE Append(InsertByEntryKey(SubSeq(sorted, 1, Len(sorted) - 1), row),
              sorted[Len(sorted)])

RECURSIVE OrderByEntryKey(_)
OrderByEntryKey(rows) ==
  IF rows = <<>> THEN <<>>
  ELSE InsertByEntryKey(OrderByEntryKey(SubSeq(rows, 1, Len(rows) - 1)),
                        rows[Len(rows)])

\* list_entries_for_sprint_db
list_entries_for_sprint_db(db, sprint_id) ==
  LET OfSprint(entry) == entry.sprint_id = sprint_id IN
  OrderByEntryKey(SelectSeq(db.entries, OfSprint))

\* The range without its two bounds
WithinOpenRange(date, from, to) ==
  /\ ~(from # None /\ StrLeq(date, from))
  /\ ~(to # None /\ StrLeq(to, date))

\* within_range; from and to are None or a string
within_range(date, from, to) ==
  /\ ~(from # None /\ StrLess(date, from))
  /\ ~(to # None /\ StrLess(to, date))

\* main.rs 1175-1203: the entries of the report; input.categories is <<>> or
\* <<ids>>, ids a sequence of ids, and an empty sequence filters nothing
FilteredEntries(rows, input) ==
  LET Passes(entry) ==
        /\ within_range(entry.date, input.from_date, input.to_date)
        /\ \/ input.categories = <<>>
           \/ input.categories[1] = <<>>
           \/ entry.category_id \in Range(input.categories[1])
  IN  OrderByEntryKey(SelectSeq(rows, Passes))

\* main.rs 1215-1218: the name of the entry's category, its id when no
\* category has it
CategoryLabel(categories, category_id) ==
  IF category_id \in Ids(categories)
  THEN (CHOOSE c \in Range(categories) : c.id = category_id).name
  ELSE category_id

\* The keys of a BTreeMap<String, _> in iteration order
RECURSIVE SortedStrings(_)
SortedStrings(keys) ==
  IF keys = {} THEN <<>>
  ELSE LET least == CHOOSE k \in keys : \A other \in keys : StrLeq(k, other)
       IN  <<least>> \o SortedStrings(keys \ {least})

\* main.rs 1260-1264: the line of an item
BulletLine(item) ==
  <<"-", " ">> \o item.title
    \o (IF item.details = None THEN <<>> ELSE <<" ", "-", " ">> \o item.details)

\* main.rs 1258-1267: the subsections of one date; items are the entries of
\* the date in the order of the report
RECURSIVE RenderCategories(_, _, _)
RenderCategories(labels, items, categories) ==
  IF labels = <<>> THEN <<>>
  ELSE LET Labelled(item) == CategoryLabel(categories, item.category_id) = Head(labels)
           list == SelectSeq(items, Labelled)
       IN  << <<"#", "#", "#", " ">> \o Head(labels) >>
             \o [i \in DOMAIN list |-> BulletLine(list[i])]
             \o << <<>> >>
             \o RenderCategories(Tail(labels), items, categories)

\* main.rs 1256-1268: the sections of the dates
RECURSIVE RenderDates(_, _, _)
RenderDates(dates, filtered, categories) ==
  IF dates = <<>> THEN <<>>
  ELSE LET OfDate(item) == item.date = Head(dates)
           items == SelectSeq(filtered, OfDate)
           labels == SortedStrings({CategoryLabel(categories, items[i].category_id) :
                                      i \in DOMAIN items})
       IN  << <<"#", "#", " ">> \o Head(dates), <<>> >>
             \o RenderCategories(labels, items, categories)
             \o RenderDates(Tail(dates), filtered, categories)

\* main.rs 1212-1269: grouping and rendering of the entries of the report
RenderGrouped(filtered, categories, none_found) ==
  IF filtered = <<>> THEN <<none_found>>
  ELSE RenderDates(SortedStrings({filtered[i].date : i \in DOMAIN filtered}),
                   filtered, categories)

\* main.rs 1228-1251: the header of the report written at instant t; the
\* character U+0060 is the token "U+0060"
ReportHeader(sprint, input, t, total_items) ==
  << <<"#", " ", "S", "p", "r", "i", "n", "t", " ", "R", "e", "p", "o", "r", "t", ":", " ">> \o sprint.name,
     <<>>,
     <<"-", " ", "S", "p", "r", "i", "n", "t", " ", "I", "D", ":", " ", "U+0060">> \o sprint.id \o <<"U+0060">>,
     <<"-", " ", "S", "p", "r", "i", "n", "t", " ", "C", "o", "d", "e", ":", " ", "U+0060">> \o sprint.code \o <<"U+0060">>,
     <<"-", " ", "S", "p", "r", "i", "n", "t", " ", "W", "i", "n", "d", "o", "w", ":", " ">> \o sprint.start_date \o <<" ", "t", "o", " ">>
       \o (IF sprint.end_date = None THEN <<"o", "p", "e", "n">> ELSE sprint.end_date),
     <<"-", " ", "E", "x", "p", "o", "r", "t", "e", "d", " ", "A", "t", ":", " ">> \o NatDigits(t) >>
    \o (IF input.from_date = None THEN <<>> ELSE << <<"-", " ", "R", "e", "p", "o", "r", "t", " ", "F", "r", "o", "m", ":", " ">> \o input.from_date >>)
    \o (IF input.to_date = None THEN <<>> ELSE << <<"-", " ", "R", "e", "p", "o", "r", "t", " ", "T", "o", ":", " ">> \o input.to_date >>)
    \o << <<"-", " ", "I", "n", "c", "l", "u", "d", "e", "d", " ", "I", "t", "e", "m", "s", ":", " ">> \o NatDigits(total_items), <<>> >>

\* main.rs 1152-1290 once the sprint is read and the entries are filtered
ReportWritten(conn, sprint, input, t, filtered) ==
  [result |-> "ok", db |-> conn.db, opened |-> TRUE,
   markdown |-> ReportHeader(sprint, input, t, Len(filtered))
                  \o RenderGrouped(filtered, conn.db.categories,
                                   <<"N", "o", " ", "i", "t", "e", "m", "s", " ", "f", "o", "u", "n", "d", " ", "f", "o", "r", " ", "t", "h", "e", " ", "s", "e", "l", "e", "c", "t", "e", "d", " ", "f", "i", "l", "t", "e", "r", "s", ".">>),
   file_path |-> <<"r", "e", "p", "o", "r", "t", "-">> \o slugify(sprint.name) \o <<"-">> \o NatDigits(t)
                   \o <<".", "m", "d">>,
   total_items |-> Len(filtered)]

\* The outcome of generate_report when it fails
ReportFailed(result, db, opened) ==
  [result |-> result, db |-> db, opened |-> opened,
   markdown |-> <<>>, file_path |-> <<>>, total_items |-> 0]

\* generate_report: [result, db, opened, markdown, file_path, total_items];
\* input.from_date and input.to_date are None or a string
generate_report(db, conn, t, input) ==
  IF conn.result # "ok" THEN ReportFailed(conn.result, conn.db, FALSE)
  ELSE IF ~sprint_exists(conn.db, input.sprint_id)
  THEN ReportFailed("the selected sprint does not exist", conn.db, TRUE)
  ELSE ReportWritten(
         conn,
         CHOOSE sprint \in Range(conn.db.sprints) : sprint.id = input.sprint_id,
         input, t,
         FilteredEntries(list_entries_for_sprint_db(conn.db, input.sprint_id), input))

(***************************************************************************)
(* Inputs: the legacy snapshots and the arguments the commands are called  *)
(* with                                                                    *)
(***************************************************************************)
\* A well-formed snapshot: one sprint without a code, one entry without an id
\* and with a category that the snapshot does not list
SnapshotPlain ==
  [exists |-> TRUE,
   categories |->
    <<[id |-> <<"w", "o", "r", "k">>, name |-> <<"W", "o", "r", "k">>, created_at |-> 0]>>,
   sprints |->
    <<[id |-> <<"s", "1">>, code |-> <<"s", "p", "r", "i", "n", "t", "-", "1">>, name |-> <<"O", "n", "e">>,
       start_date |-> <<"2", "0", "2", "4", "-", "0", "1", "-", "0", "1">>,
       end_date |-> <<"2", "0", "2", "4", "-", "0", "1", "-", "1", "4">>, created_at |-> 0],
     [id |-> <<"s", "2">>, code |-> <<>>, name |-> <<"s", "p", "r", "i", "n", "t", " ", "2">>,
       start_date |-> <<"2", "0", "2", "4", "-", "0", "1", "-", "1", "5">>,
       end_date |-> None, created_at |-> 1]>>,
   entries |->
    <<[id |-> <<"e", "1">>, sprint_id |-> <<"s", "1">>,
       date |-> <<"2", "0", "2", "4", "-", "0", "1", "-", "0", "2">>,
       category_id |-> <<"w", "o", "r", "k">>, title |-> <<"F", "i", "x">>,
       details |-> None, created_at |-> 0],
     [id |-> <<>>, sprint_id |-> <<"s", "2">>,
       date |-> <<"2", "0", "2", "4", "-", "0", "1", "-", "1", "6">>,
       category_id |-> <<"m", "i", "s", "c", "-", "o", "p", "s">>, title |-> <<"O", "p", "s">>,
       details |-> <<"d">>, created_at |-> 1]>>]

\* Sprint numbers at both ends of u32, no categories
SnapshotExtremes ==
  [exists |-> TRUE,
   categories |->
    <<>>,
   sprints |->
    <<[id |-> <<"s", "1">>, code |-> <<"s", "p", "r", "i", "n", "t", "-", "0">>, name |-> <<"Z", "e", "r", "o">>,
       start_date |-> <<"2", "0", "2", "4", "-", "0", "1", "-", "0", "1">>,
       end_date |-> <<"2", "0", "2", "4", "-", "0", "1", "-", "1", "4">>, created_at |-> 0],
     [id |-> <<"s", "2">>, code |-> <<"s", "p", "r", "i", "n", "t", "-", "4", "2", "9", "4", "9", "6", "7", "2", "9", "5">>, name |-> <<"L", "a", "s", "t">>,
       start_date |-> <<"2", "0", "2", "4", "-", "0", "1", "-", "1", "5">>,
       end_date |-> None, created_at |-> 1]>>,
   entries |->
    <<>>]

\* Two categories whose names differ in case only, the second one in use
SnapshotSameName ==
  [exists |-> TRUE,
   categories |->
    <<[id |-> <<"a">>, name |-> <<"W", "o", "r", "k">>, created_at |-> 0],
     [id |-> <<"b">>, name |-> <<"w", "o", "r", "k">>, created_at |-> 0]>>,
   sprints |->
    <<[id |-> <<"s", "1">>, code |-> <<"s", "p", "r", "i", "n", "t", "-", "1">>, name |-> <<"O", "n", "e">>,
       start_date |-> <<"2", "0", "2", "4", "-", "0", "1", "-", "0", "1">>,
       end_date |-> None, created_at |-> 0]>>,
   entries |->
    <<[id |-> <<"e", "1">>, sprint_id |-> <<"s", "1">>,
       date |-> <<"2", "0", "2", "4", "-", "0", "1", "-", "0", "2">>,
       category_id |-> <<"b">>, title |-> <<"F", "i", "x">>,
       details |-> None, created_at |-> 0]>>]

\* A sprint whose name carries the number that a later sprint has as its code
SnapshotNameNumber ==
  [exists |-> TRUE,
   categories |->
    <<[id |-> <<"w", "o", "r", "k">>, name |-> <<"W", "o", "r", "k">>, created_at |-> 0]>>,
   sprints |->
    <<[id |-> <<"s", "1">>, code |-> <<"a", "l", "p", "h", "a">>, name |-> <<"s", "p", "r", "i", "n", "t", " ", "2">>,
       start_date |-> <<"2", "0", "2", "4", "-", "0", "1", "-", "0", "1">>,
       end_date |-> <<"2", "0", "2", "4", "-", "0", "1", "-", "1", "4">>, created_at |-> 0],
     [id |-> <<"s", "2">>, code |-> <<"s", "p", "r", "i", "n", "t", "-", "2">>, name |-> <<"T", "w", "o">>,
       start_date |-> <<"2", "0", "2", "4", "-", "0", "1", "-", "1", "5">>,
       end_date |-> None, created_at |-> 1]>>,
   entries |->
    <<[id |-> <<"e", "1">>, sprint_id |-> <<"s", "2">>,
       date |-> <<"2", "0", "2", "4", "-", "0", "1", "-", "1", "6">>,
       category_id |-> <<"w", "o", "r", "k">>, title |-> <<"F", "i", "x">>,
       details |-> None, created_at |-> 0]>>]

\* Two sprints with different ids and the same code, the second one with an
\* entry
SnapshotSameCode ==
  [exists |-> TRUE,
   categories |->
    <<[id |-> <<"w", "o", "r", "k">>, name |-> <<"W", "o", "r", "k">>, created_at |-> 0]>>,
   sprints |->
    <<[id |-> <<"s", "1">>, code |-> <<"s", "p", "r", "i", "n", "t", "-", "1">>, name |-> <<"O", "n", "e">>,
       start_date |-> <<"2", "0", "2", "4", "-", "0", "1", "-", "0", "1">>,
       end_date |-> <<"2", "0", "2", "4", "-", "0", "1", "-", "1", "4">>, created_at |-> 0],
     [id |-> <<"s", "2">>, code |-> <<"s", "p", "r", "i", "n", "t", "-", "1">>, name |-> <<"T", "w", "o">>,
       start_date |-> <<"2", "0", "2", "4", "-", "0", "1", "-", "1", "5">>,
       end_date |-> None, created_at |-> 1]>>,
   entries |->
    <<[id |-> <<"e", "1">>, sprint_id |-> <<"s", "2">>,
       date |-> <<"2", "0", "2", "4", "-", "0", "1", "-", "1", "6">>,
       category_id |-> <<"w", "o", "r", "k">>, title |-> <<"F", "i", "x">>,
       details |-> None, created_at |-> 0]>>]

\* SnapshotPlain with its category named as the humanized id of the category
\* that the snapshot does not list
SnapshotClashingName ==
  [SnapshotPlain EXCEPT !.categories[1].name = <<"M", "i", "s", "c", " ", "O", "p", "s">>]

LegacySnapshots == {NoFile, SnapshotPlain, SnapshotExtremes, SnapshotSameName}

AbsentId == <<"n", "o", "p", "e">>

Blank == <<" ">>

CategoryNameInputs == {<<" ", LowerEAcute>>, <<"p", "r", "e", "v", "i", "e", "w">>, Blank}

RenameCategoryInputs == {<<UpperEAcute>>}

StartDateInputs == {<<"2", "0", "2", "4", "-", "0", "1", "-", "0", "8">>, <<"s", "o", "o", "n">>}

DurationInputs == {<<>>, <<10>>}

SprintNameInputs == {None, Blank, <<"Q", "1">>}

RenameSprintInputs == {<<"9">>}

TodayInputs == {<<"2", "0", "2", "4", "-", "0", "1", "-", "1", "0">>, <<"2", "0", "2", "4", "-", "0", "3", "-", "0", "1">>}

EntryDateInputs == {<<"2", "0", "2", "4", "-", "0", "1", "-", "0", "9">>}

TitleInputs == {<<" ", "F", "i", "x">>}

DetailsInputs == {None, <<"d", " ">>}

(***************************************************************************)
(* The state machine                                                       *)
(***************************************************************************)
\* The largest number of rows the commands create in one behaviour
MaxCreated == 1

VARIABLES
  categories,  \* the categories table, in rowid order
  sprints,     \* the sprints table, in rowid order
  entries,     \* the entries table, in rowid order
  clock,       \* the current instant
  opened,      \* whether some open of the store has succeeded
  deleting     \* the delete_category invocations in progress, by caller

vars == <<categories, sprints, entries, clock, opened, deleting>>

\* The processes that invoke commands on the store at the same time
Callers == {1, 2}

\* A caller with no delete_category in progress; last is the outcome of its
\* latest invocation
NotDeleting(last) ==
  [pc |-> "idle", category_id |-> <<>>, replacement_id |-> None, last |-> last]

Db == [categories |-> categories, sprints |-> sprints, entries |-> entries]

Pad(id) == <<" ">> \o id

Init ==
  /\ categories = <<>>
  /\ sprints = <<>>
  /\ entries = <<>>
  /\ clock = 1
  /\ opened = FALSE
  /\ deleting = [caller \in Callers |-> NotDeleting("none")]

\* The effect of a command with outcome out; a command that created a row
\* is followed by a later instant
Return(out, creates) ==
  /\ categories' = out.db.categories
  /\ sprints' = out.db.sprints
  /\ entries' = out.db.entries
  /\ clock' = IF creates /\ out.result = "ok" THEN clock + 1 ELSE clock
  /\ opened' = (opened \/ out.opened)
  /\ UNCHANGED deleting

CanCreate == clock <= MaxCreated

\* The environment of a command: the legacy snapshot file that the command's
\* open_db finds (daily-updates-data.json, which the program never writes) and
\* whether the build has overflow checks.  The file is read only when the
\* store is empty; AddOne depends on the build only at u32::MAX, which a
\* number reaches only if the snapshot or the store holds it.
Environments ==
  {env \in [legacy : LegacySnapshots, checked : BOOLEAN] :
     /\ ~db_is_empty(Db) => env.legacy = NoFile
     /\ env.checked =>
          \E rows \in {env.legacy.sprints, sprints} : \E i \in DOMAIN rows :
             U32Max \in {sprint_number(rows[i].code), sprint_number(rows[i].name)}}

\* The argument sets of the commands in the current state
CategoryIdInputs == Ids(categories) \cup {AbsentId}

SprintIdInputs == Ids(sprints) \cup {AbsentId}

NewCategoryInputs == [name : CategoryNameInputs]

UpdateCategoryInputs == [id : CategoryIdInputs, name : RenameCategoryInputs]

\* An id that names no category, or is padded, comes without a replacement
DeleteCategoryInputs ==
  [id : Ids(categories), replacement_category_id : CategoryIdInputs \cup {None, Blank}]
    \cup [id : {AbsentId} \cup {Pad(categories[i].id) : i \in DOMAIN categories \cap {1}},
          replacement_category_id : {None}]

NewSprintInputs ==
  [name : SprintNameInputs, start_date : StartDateInputs,
   duration_days : DurationInputs]

UpdateSprintNameInputs == [id : SprintIdInputs, name : RenameSprintInputs]

DeleteSprintInputs ==
  [id : SprintIdInputs \cup {Blank} \cup {Pad(sprints[i].id) : i \in DOMAIN sprints \cap {1}}]

\* At most one argument of an entry is blank or names no row
NewDailyEntryInputs ==
  {input \in [sprint_id : SprintIdInputs, date : EntryDateInputs \cup {Blank},
              category_id : CategoryIdInputs, title : TitleInputs \cup {Blank},
              details : DetailsInputs] :
     Cardinality({f \in {"sprint_id", "date", "category_id", "title"} :
                    input[f] \in {AbsentId, Blank}}) <= 1}

\* open_db(&app) in the current state
Connect(env) == open_db(Db, env.legacy, clock, env.checked)

CreateCategory ==
  /\ CanCreate
  /\ \E env \in Environments :
       LET conn == Connect(env) IN
       \E input \in NewCategoryInputs :
          Return(create_category(Db, conn, clock, env.checked, input), TRUE)

UpdateCategory ==
  \E env \in Environments :
     LET conn == Connect(env) IN
     \E input \in UpdateCategoryInputs :
        Return(update_category(Db, conn, clock, env.checked, input), FALSE)

DeleteCategory ==
  \E env \in Environments :
     LET conn == Connect(env) IN
     \E input \in DeleteCategoryInputs, delete_fails \in BOOLEAN :
        Return(delete_category(Db, conn, clock, env.checked, input, delete_fails),
               FALSE)

CreateSprint ==
  /\ CanCreate
  /\ \E env \in Environments :
       LET conn == Connect(env) IN
       \E input \in NewSprintInputs :
          Return(create_sprint(Db, conn, clock, env.checked, input), TRUE)

UpdateSprintName ==
  \E env \in Environments :
     LET conn == Connect(env) IN
     \E input \in UpdateSprintNameInputs :
        Return(update_sprint_name(Db, conn, clock, env.checked, input), FALSE)

DeleteSprint ==
  \E env \in Environments :
     LET conn == Connect(env) IN
     \E input \in DeleteSprintInputs, today \in TodayInputs :
        Return(delete_sprint(Db, conn, clock, env.checked, input, today), FALSE)

AddDailyEntry ==
  /\ CanCreate
  /\ \E env \in Environments :
       LET conn == Connect(env) IN
       \E input \in NewDailyEntryInputs :
          Return(add_daily_entry(Db, conn, clock, env.checked, input), TRUE)

\* list_categories, list_sprints, list_entries_for_sprint
ListCommand ==
  \E env \in Environments : Return(list_command(Db, Connect(env)), FALSE)

\* The terminal client opens the store (devlog-cli.rs run / open_db)
CliOpen ==
  \E seeded \in {cli_open_db(Db, clock)} : Return(Out("ok", seeded, TRUE), FALSE)

Next ==
  \/ CreateCategory
  \/ UpdateCategory
  \/ DeleteCategory
  \/ CreateSprint
  \/ UpdateSprintName
  \/ DeleteSprint
  \/ AddDailyEntry
  \/ ListCommand
  \/ CliOpen

Spec == Init /\ [][Next]_vars

(***************************************************************************)
(* Opening stores imported from snapshots with irregular sprint codes      *)
(***************************************************************************)
\* The most sprints a generated snapshot holds
MaxSprints == 3

\* Code and name of the sprints of the generated snapshots: canonical codes,
\* codes without a number beside a name with or without one, an empty code,
\* and the largest u32
SprintSeeds ==
  { [code |-> <<"s", "p", "r", "i", "n", "t", "-", "2">>, name |-> <<"T", "w", "o">>],
    [code |-> <<"a", "l", "p", "h", "a">>, name |-> <<"s", "p", "r", "i", "n", "t", " ", "2">>],
    [code |-> <<"s", "p", "r", "i", "n", "t", "-", "5">>, name |-> <<"F", "i", "v", "e">>],
    [code |-> <<"b", "e", "t", "a">>, name |-> <<"B", "e", "t", "a">>],
    [code |-> <<>>, name |-> <<"x">>],
    [code |-> <<"s", "p", "r", "i", "n", "t", "-", "4", "2", "9", "4", "9", "6", "7", "2", "9", "5">>, name |-> <<"L", "a", "s", "t">>] }

\* The snapshot whose sprints carry seeds in file order; newest_first tells
\* whether the file lists the sprints from the newest to the oldest
SeededSnapshot(seeds, newest_first) ==
  [exists |-> TRUE,
   categories |-> <<>>,
   sprints |->
     [i \in DOMAIN seeds |->
        [id |-> <<"s", Digit[i + 1]>>,
         code |-> seeds[i].code,
         name |-> seeds[i].name,
         start_date |-> <<"2", "0", "2", "4", "-", "0", "1", "-", "0", "1">>,
         end_date |-> None,
         created_at |-> IF newest_first THEN Len(seeds) - i ELSE i]],
   entries |-> <<>>]

SeededSnapshots ==
  {SeededSnapshot(seeds, newest_first) :
     seeds \in UNION {[1..n -> SprintSeeds] : n \in 1..MaxSprints},
     newest_first \in BOOLEAN}

\* The environments of an open in the current state, the snapshot file
\* being one of the generated ones
SeededEnvironments ==
  {env \in [legacy : IF db_is_empty(Db) THEN SeededSnapshots ELSE {NoFile},
            checked : BOOLEAN] :
     env.checked =>
       \E rows \in {env.legacy.sprints, sprints} : \E i \in DOMAIN rows :
          U32Max \in {sprint_number(rows[i].code), sprint_number(rows[i].name)}}

\* list_sprints where the snapshot file is one of the generated ones
ListSprints ==
  \E env \in SeededEnvironments : Return(list_command(Db, Connect(env)), FALSE)

OpenNext ==
  \/ ListSprints
  \/ UpdateSprintName

OpenSpec == Init /\ [][OpenNext]_vars

(***************************************************************************)
(* Reports of stores with several entries                                  *)
(***************************************************************************)
\* The most entries a store holds when another one is logged
MaxEntries == 3

ReportDates == {<<"2", "0", "2", "4", "-", "0", "1", "-", "0", "9">>, <<"2", "0", "2", "4", "-", "0", "1", "-", "0", "8">>}

\* A category whose id sorts before the ids of the default categories and
\* whose name sorts after their names
ReportCategoryName == <<"z", "e", "t", "a">>

\* The title of the n-th entry of the store
ReportTitle(n) == <<"T", Digit[n + 1]>>

ReportSprintInputs ==
  [name : {None}, start_date : {<<"2", "0", "2", "4", "-", "0", "1", "-", "0", "8">>}, duration_days : {<<>>}]

\* The entries are logged under the categories after the first one; the
\* first entry comes with or without details, the later ones with details
ReportEntryInputs ==
  [sprint_id : Ids(sprints), date : ReportDates,
   category_id : {categories[i].id : i \in DOMAIN categories \ {1}},
   title : {ReportTitle(Len(entries) + 1)},
   details : IF entries = <<>> THEN {None, <<"d">>} ELSE {<<"d">>}]

\* The filters of a report: bounds that are absent or a date of the entries,
\* and categories that are absent, empty or a list of ids
ReportFilters ==
  [from_date : {None} \cup ReportDates, to_date : {None} \cup ReportDates,
   categories : {<<>>, << <<>> >>, << <<AbsentId>> >>}
                  \cup {<< <<categories[i].id>> >> : i \in DOMAIN categories \cap {2}}
                  \cup {<< <<categories[i].id, categories[Len(categories)].id>> >> :
                          i \in DOMAIN categories \cap {1}}]

ReportInputs ==
  {[sprint_id |-> id, from_date |-> f.from_date, to_date |-> f.to_date,
    categories |-> f.categories] :
     id \in Ids(sprints) \cup {AbsentId}, f \in ReportFilters}

\* A snapshot that lists two entries of one day and one category, the newer
\* one first
SnapshotUnordered ==
  [exists |-> TRUE,
   categories |-> <<>>,
   sprints |->
    <<[id |-> <<"s", "1">>, code |-> <<"s", "p", "r", "i", "n", "t", "-", "1">>, name |-> <<"O", "n", "e">>,
       start_date |-> <<"2", "0", "2", "4", "-", "0", "1", "-", "0", "8">>,
       end_date |-> None, created_at |-> 0]>>,
   entries |->
    <<[id |-> <<"e", "1">>, sprint_id |-> <<"s", "1">>,
       date |-> <<"2", "0", "2", "4", "-", "0", "1", "-", "0", "8">>,
       category_id |-> <<"t", "a", "s", "k", "s">>, title |-> <<"L", "1">>,
       details |-> None, created_at |-> 9],
     [id |-> <<"e", "2">>, sprint_id |-> <<"s", "1">>,
       date |-> <<"2", "0", "2", "4", "-", "0", "1", "-", "0", "8">>,
       category_id |-> <<"t", "a", "s", "k", "s">>, title |-> <<"L", "2">>,
       details |-> None, created_at |-> 5]>>]

\* A snapshot that lists two entries of one day and one category with the
\* same created_at, in one order or the other
SnapshotTied(reversed) ==
  LET first == [SnapshotUnordered.entries[1] EXCEPT !.created_at = 5]
      second == SnapshotUnordered.entries[2]
  IN  [SnapshotUnordered EXCEPT
         !.entries = IF reversed THEN <<second, first>> ELSE <<first, second>>]

\* The environments of the commands of a report: the store is created
\* without a snapshot file or from one of the snapshots above, whose sprint
\* numbers are far from u32::MAX
ReportEnvironments ==
  {env \in [legacy : {NoFile, SnapshotUnordered, SnapshotTied(FALSE), SnapshotTied(TRUE)},
            checked : {FALSE}] :
     ~db_is_empty(Db) => env.legacy = NoFile}

ReportCreateSprint ==
  /\ sprints = <<>>
  /\ \E env \in ReportEnvironments : \E input \in ReportSprintInputs :
        Return(create_sprint(Db, Connect(env), clock, env.checked, input), TRUE)

ReportCreateCategory ==
  /\ sprints # <<>>
  /\ ~category_name_exists(Db, ReportCategoryName, None)
  /\ \E env \in ReportEnvironments :
        Return(create_category(Db, Connect(env), clock, env.checked,
                               [name |-> ReportCategoryName]), TRUE)

ReportAddDailyEntry ==
  /\ Len(entries) < MaxEntries
  /\ \E env \in ReportEnvironments : \E input \in ReportEntryInputs :
        Return(add_daily_entry(Db, Connect(env), clock, env.checked, input), TRUE)

\* generate_report writes the file of the report and leaves the store as its
\* open_db left it
GenerateReport ==
  \E env \in ReportEnvironments : \E input \in ReportInputs :
     LET report == generate_report(Db, Connect(env), clock, input) IN
     Return(Out(report.result, report.db, report.opened), FALSE)

ReportNext ==
  \/ ReportCreateSprint
  \/ ReportCreateCategory
  \/ ReportAddDailyEntry
  \/ GenerateReport

ReportSpec == Init /\ [][ReportNext]_vars

(***************************************************************************)
(* delete_category invoked by two callers at once.  Each invocation has    *)
(* its own connection in autocommit mode, so every statement is a step of  *)
(* its own, and the statements of the two invocations interleave.          *)
(***************************************************************************)
\* The stores of the interleaved invocations come from the defaults or from
\* SnapshotPlain, which leaves two categories with an entry each
RaceEnvironments ==
  {env \in [legacy : {NoFile, SnapshotPlain}, checked : {FALSE}] :
     ~db_is_empty(Db) => env.legacy = NoFile}

\* The outcome of a step of caller: the store, and the caller's position
RaceReturn(caller, db, position, has_opened) ==
  /\ categories' = db.categories
  /\ sprints' = db.sprints
  /\ entries' = db.entries
  /\ opened' = (opened \/ has_opened)
  /\ deleting' = [deleting EXCEPT ![caller] = position]
  /\ UNCHANGED clock

\* main.rs 885-898: validation, open_db and SELECT COUNT(*) FROM categories
DeleteCategoryCount(caller) ==
  /\ deleting[caller].pc = "idle"
  /\ \E env \in RaceEnvironments :
        LET conn == Connect(env) IN
        \E input \in [id : Ids(conn.db.categories),
                      replacement_category_id : {None} \cup Ids(conn.db.categories)] :
           IF conn.result # "ok"
           THEN RaceReturn(caller, conn.db, NotDeleting(conn.result), FALSE)
           ELSE IF IsLastCategory(conn.db)
           THEN RaceReturn(caller, conn.db,
                           NotDeleting("at least one category is required"), TRUE)
           ELSE RaceReturn(caller, conn.db,
                           [pc |-> "counted", category_id |-> Trim(input.id),
                            replacement_id |-> input.replacement_category_id,
                            last |-> "none"], TRUE)

\* main.rs 900-937: category_exists, the count of the entries of the category
\* and the choice of the replacement
DeleteCategoryCheck(caller) ==
  /\ deleting[caller].pc = "counted"
  /\ LET category_id == deleting[caller].category_id
         replacement_id ==
           IF deleting[caller].replacement_id # None
           THEN deleting[caller].replacement_id
           ELSE OldestOtherCategory(Db, category_id)
     IN  IF ~category_exists(Db, category_id)
         THEN RaceReturn(caller, Db, NotDeleting("category not found"), FALSE)
         ELSE IF CountEntriesOfCategory(Db, category_id) = 0
         THEN RaceReturn(caller, Db, [deleting[caller] EXCEPT !.pc = "delete"], FALSE)
         ELSE IF replacement_id = None
         THEN RaceReturn(caller, Db,
                         NotDeleting("no replacement category available"), FALSE)
         ELSE IF replacement_id = category_id
         THEN RaceReturn(caller, Db,
                         NotDeleting("replacement category must be different"), FALSE)
         ELSE IF ~category_exists(Db, replacement_id)
         THEN RaceReturn(caller, Db,
                         NotDeleting("replacement category not found"), FALSE)
         ELSE RaceReturn(caller, Db,
                         [deleting[caller] EXCEPT !.pc = "update",
                                                  !.replacement_id = replacement_id],
                         FALSE)

\* main.rs 939-945: UPDATE entries SET category_id
DeleteCategoryUpdate(caller) ==
  /\ deleting[caller].pc = "update"
  /\ LET upd == UpdateEntriesCategory(Db, deleting[caller].replacement_id,
                                      deleting[caller].category_id)
     IN  IF upd.err
         THEN RaceReturn(caller, Db,
                         NotDeleting("failed to reassign category entries"), FALSE)
         ELSE RaceReturn(caller, upd.db, [deleting[caller] EXCEPT !.pc = "delete"],
                         FALSE)

\* main.rs 948-956: DELETE FROM categories
DeleteCategoryDelete(caller) ==
  /\ deleting[caller].pc = "delete"
  /\ LET del == DeleteCategoryRow(Db, deleting[caller].category_id) IN
     IF del.err
     THEN RaceReturn(caller, Db, NotDeleting("failed to delete category"), FALSE)
     ELSE IF del.n = 0
     THEN RaceReturn(caller, Db, NotDeleting("category not found"), FALSE)
     ELSE RaceReturn(caller, del.db, NotDeleting("ok"), FALSE)

RaceNext ==
  \E caller \in Callers :
     \/ DeleteCategoryCount(caller)
     \/ DeleteCategoryCheck(caller)
     \/ DeleteCategoryUpdate(caller)
     \/ DeleteCategoryDelete(caller)

RaceSpec == Init /\ [][RaceNext]_vars

(***************************************************************************)
(* Properties.  A command is an operator on the database, so a property of *)
(* a command is stated in every reachable state for every argument the     *)
(* command can be called with there: conn is the outcome of the open_db    *)
(* that the command performs once its arguments are validated, and         *)
(* "unchanged" compares the database the command leaves with conn.db, the  *)
(* database its open_db produced.                                          *)
(***************************************************************************)
\* The messages returned for a missing or malformed argument and for a
\* refused operation (ValidationError)
ValidationErrors ==
  {"category id is required", "category name is required",
   "at least one category is required", "replacement category must be different",
   "start_date is required", "start_date must be in YYYY-MM-DD format",
   "duration_days must be 7 or 14", "sprint id is required",
   "sprint name is required", "cannot delete the active sprint",
   "title is required", "date is required", "category_id is required"}

\* The messages returned for an id that names no row (NotFoundError)
NotFoundErrors ==
  {"category not found", "replacement category not found", "sprint not found",
   "the selected sprint does not exist", "the selected category does not exist"}

\* Case folding of a character over all letters, not only the ASCII ones
FoldCaseChar(c) == IF c = UpperEAcute THEN LowerEAcute ELSE ToAsciiLowerChar(c)

\* Two names are equal ignoring case
EqualIgnoringCase(a, b) ==
  Len(a) = Len(b) /\ \A i \in DOMAIN a : FoldCaseChar(a[i]) = FoldCaseChar(b[i])

\* C1: after a successful open, every entry's category_id is the id of a
\* category of the store and its sprint_id is the id of a sprint of the store
C1_ReferentialIntegrity ==
  opened =>
    \A i \in DOMAIN entries :
       /\ entries[i].category_id \in Ids(categories)
       /\ entries[i].sprint_id \in Ids(sprints)

\* C1 witness: an opened store that holds imported entries and an added one
C1_Witness ==
  /\ opened
  /\ Len(entries) >= 3
  /\ \E i \in DOMAIN entries : entries[i].id = next_id(S_entry, 1)

\* C2: after a successful open the store holds at least one category, and
\* while it holds exactly one, every delete_category fails with a validation
\* error and leaves categories and entries as they are
C2_AtLeastOneCategory ==
  opened =>
    /\ Len(categories) >= 1
    /\ Len(categories) = 1 =>
         \A env \in Environments, input \in DeleteCategoryInputs, delete_fails \in BOOLEAN :
            LET out == delete_category(Db, Connect(env), clock, env.checked, input,
                                       delete_fails)
            IN  /\ out.result \in ValidationErrors
                /\ out.db.categories = categories
                /\ out.db.entries = entries

\* C2 witness: an opened store with one category left, whose deletion is
\* refused
C2_Witness ==
  /\ opened
  /\ Len(categories) = 1
  /\ \E env \in Environments :
       delete_category(Db, Connect(env), clock, env.checked,
                       [id |-> categories[1].id, replacement_category_id |-> None],
                       FALSE).result = "at least one category is required"

C4_CategoryNamesUniqueIgnoringCase ==
  \A i, j \in DOMAIN categories :
     i # j => ~EqualIgnoringCase(categories[i].name, categories[j].name)

\* C5: delete_category is all or nothing: whenever the category is still in
\* the store after the command, the entries are as they were before it
C5_DeleteCategoryAllOrNothing ==
  \A env \in Environments, input \in DeleteCategoryInputs, delete_fails \in BOOLEAN :
     LET conn == Connect(env)
         out == delete_category(Db, conn, clock, env.checked, input, delete_fails)
     IN  Trim(input.id) \in Ids(out.db.categories) => out.db.entries = conn.db.entries

\* The entries after the entries of category id have moved to replacement
Reassigned(rows, id, replacement) ==
  [i \in DOMAIN rows |-> IF rows[i].category_id = id
                         THEN [rows[i] EXCEPT !.category_id = replacement]
                         ELSE rows[i]]

\* C6: delete_category of an existing category with an explicit replacement
\* that exists and differs from it, when no statement fails, succeeds, moves
\* exactly the entries of the category to the replacement, removes the
\* category and changes no other entry, category or sprint
C6_DeleteCategoryMovesEntries ==
  \A env \in Environments, input \in DeleteCategoryInputs :
     LET conn == Connect(env)
         id == Trim(input.id)
         replacement == input.replacement_category_id
         out == delete_category(Db, conn, clock, env.checked, input, FALSE)
     IN  ( /\ conn.result = "ok"
           /\ id \in Ids(conn.db.categories)
           /\ replacement # None
           /\ Trim(replacement) \in Ids(conn.db.categories)
           /\ Trim(replacement) # id )
         => /\ out.result = "ok"
            /\ out.db.entries = Reassigned(conn.db.entries, id, Trim(replacement))
            /\ Len(out.db.entries) = Len(conn.db.entries)
            /\ out.db.categories = SelectSeq(conn.db.categories, LAMBDA r : r.id # id)
            /\ out.db.sprints = conn.db.sprints

\* C6 witness: a category that entries reference is deleted with an explicit
\* replacement while another entry references a third category
C6_Witness ==
  \E env \in Environments, input \in DeleteCategoryInputs :
     LET conn == Connect(env)
         replacement == input.replacement_category_id
     IN  /\ conn.result = "ok"
         /\ replacement \in Ids(conn.db.categories) \ {input.id}
         /\ CountEntriesOfCategory(conn.db, input.id) > 0
         /\ \E i \in DOMAIN conn.db.entries :
               conn.db.entries[i].category_id \notin {input.id, replacement}
         /\ delete_category(Db, conn, clock, env.checked, input, FALSE).result = "ok"

\* C7 as stated, for a store with more than one category and an existing
\* category: with a replacement id that names no category, delete_category
\* fails with a not-found error and leaves categories and entries unchanged
C7_UnknownReplacementAlwaysRefused ==
  \A env \in Environments, input \in DeleteCategoryInputs, delete_fails \in BOOLEAN :
     LET conn == Connect(env)
         replacement == input.replacement_category_id
         out == delete_category(Db, conn, clock, env.checked, input, delete_fails)
     IN  ( /\ conn.result = "ok"
           /\ Len(conn.db.categories) > 1
           /\ Trim(input.id) \in Ids(conn.db.categories)
           /\ replacement # None
           /\ Trim(replacement) # <<>>
           /\ Trim(replacement) \notin Ids(conn.db.categories) )
         => /\ out.result \in NotFoundErrors
            /\ out.db.categories = conn.db.categories
            /\ out.db.entries = conn.db.entries

\* C7 amended: when the store holds more than one category and the category
\* to delete exists and is referenced by at least one entry, a replacement id
\* that is not blank and names no category makes delete_category fail with
\* "replacement category not found" and leave the store unchanged
C7_UnknownReplacementRefusedWhenUsed ==
  \A env \in Environments, input \in DeleteCategoryInputs, delete_fails \in BOOLEAN :
     LET conn == Connect(env)
         replacement == input.replacement_category_id
         out == delete_category(Db, conn, clock, env.checked, input, delete_fails)
     IN  ( /\ conn.result = "ok"
           /\ Len(conn.db.categories) > 1
           /\ Trim(input.id) \in Ids(conn.db.categories)
           /\ CountEntriesOfCategory(conn.db, Trim(input.id)) > 0
           /\ replacement # None
           /\ Trim(replacement) # <<>>
           /\ Trim(replacement) \notin Ids(conn.db.categories) )
         => /\ out.result = "replacement category not found"
            /\ out.result \in NotFoundErrors
            /\ out.db = conn.db

\* C7 witness: a referenced category is to be deleted with a replacement id
\* that names no category, and the command is refused
C7_Witness ==
  \E env \in Environments, input \in DeleteCategoryInputs :
     LET conn == Connect(env) IN
     /\ conn.result = "ok"
     /\ CountEntriesOfCategory(conn.db, input.id) > 0
     /\ input.replacement_category_id = AbsentId
     /\ delete_category(Db, conn, clock, env.checked, input, FALSE).result
          = "replacement category not found"

\* C8: create_category with a name that is not empty after trimming and not
\* equal ignoring case to the name of a category succeeds and the new name is
\* listed exactly once; with any other name it fails and leaves the
\* categories unchanged (as they were before the command, or as its open_db
\* left them)
C8_CreateCategoryContract ==
  \A env \in Environments, input \in NewCategoryInputs :
     LET conn == Connect(env)
         name == Trim(input.name)
         out == create_category(Db, conn, clock, env.checked, input)
     IN  conn.result = "ok" =>
           IF \/ name = <<>>
              \/ \E i \in DOMAIN conn.db.categories :
                    EqualIgnoringCase(conn.db.categories[i].name, name)
           THEN /\ out.result # "ok"
                /\ out.db.categories \in {categories, conn.db.categories}
           ELSE /\ out.result = "ok"
                /\ Cardinality({i \in DOMAIN out.db.categories :
                                  out.db.categories[i].name = name}) = 1
                /\ SubSeq(out.db.categories, 1, Len(conn.db.categories))
                     = conn.db.categories

\* C9: delete_sprint with an id that is not blank: if the id is the one
\* pick_active_sprint_id selects for today, it fails with "cannot delete the
\* active sprint" and changes nothing; if the id names no sprint, it fails
\* with "sprint not found" and changes nothing; otherwise it removes that
\* sprint and exactly the entries of that sprint, and nothing else
C9_DeleteSprintContract ==
  \A env \in Environments, input \in DeleteSprintInputs, today \in TodayInputs :
     LET conn == Connect(env)
         id == Trim(input.id)
         out == delete_sprint(Db, conn, clock, env.checked, input, today)
     IN  (conn.result = "ok" /\ id # <<>>) =>
           IF id = pick_active_sprint_id(OrderByCreatedAt(conn.db.sprints), today)
           THEN /\ out.result = "cannot delete the active sprint"
                /\ out.result \in ValidationErrors
                /\ out.db = conn.db
           ELSE IF id \notin Ids(conn.db.sprints)
           THEN /\ out.result = "sprint not found"
                /\ out.result \in NotFoundErrors
                /\ out.db = conn.db
           ELSE /\ out.result = "ok"
                /\ out.db.sprints = SelectSeq(conn.db.sprints, LAMBDA r : r.id # id)
                /\ out.db.entries = SelectSeq(conn.db.entries, LAMBDA r : r.sprint_id # id)
                /\ out.db.categories = conn.db.categories

\* C9 witness: a sprint that is not the active one is deleted and takes its
\* entries with it, while another sprint keeps its entries
C9_Witness ==
  \E env \in Environments, input \in DeleteSprintInputs, today \in TodayInputs :
     LET conn == Connect(env)
         out == delete_sprint(Db, conn, clock, env.checked, input, today)
     IN  /\ conn.result = "ok"
         /\ out.result = "ok"
         /\ out.db.entries # <<>>
         /\ Len(out.db.entries) < Len(conn.db.entries)

\* C10: a create_sprint that passes validation stores a sprint whose code is
\* sprint-(max+1), max being the largest number the codes (or else the
\* names) of the stored sprints carry and 0 without any; the code is held by
\* no stored sprint, and the name is the code when no non-blank name is given
C10_CreateSprintCode ==
  \A env \in Environments, input \in NewSprintInputs :
     LET conn == Connect(env)
         out == create_sprint(Db, conn, clock, env.checked, input)
         created == out.db.sprints[Len(out.db.sprints)]
     IN  (conn.result = "ok" /\ out.result \notin ValidationErrors) =>
           /\ out.result = "ok"
           /\ Len(out.db.sprints) = Len(conn.db.sprints) + 1
           /\ created.code = format_sprint_code(Incr(HighestNumber(conn.db.sprints)))
           /\ created.code \notin Codes(conn.db.sprints)
           /\ (input.name = None \/ Trim(input.name) = <<>>) => created.name = created.code

\* C11: sprint-code normalization is idempotent.  Whenever an open of the
\* store succeeds, the scan of ensure_sprint_codes_db over the store it
\* leaves plans no update and a further normalization returns the same
\* store; and an open of a store that an earlier open has normalized leaves
\* the sprints as they are.
C11_NormalizationIdempotent ==
  \A env \in SeededEnvironments :
     LET conn == Connect(env) IN
     conn.result = "ok" =>
       /\ PlanSprintCodes(OrderByCreatedAt(conn.db.sprints), {}, <<"0">>, <<>>,
                          env.checked)
            = [panic |-> FALSE, updates |-> <<>>]
       /\ ensure_sprint_codes_db(conn.db, env.checked)
            = [result |-> "ok", db |-> conn.db]
       /\ opened => conn.db.sprints = sprints

\* C11 witness: an opened store in which normalization gave a sprint whose
\* number was taken (name "sprint 2", code without a number) a fresh code
C11_Witness ==
  /\ opened
  /\ \E i \in DOMAIN sprints :
        /\ sprints[i].name = <<"s", "p", "r", "i", "n", "t", " ", "2">>
        /\ sprints[i].code = <<"s", "p", "r", "i", "n", "t", "-", "3">>
  /\ \E i \in DOMAIN sprints : sprints[i].code = <<"s", "p", "r", "i", "n", "t", "-", "2">>

\* The numbers that the rows carry in their codes, else in their names
Numbers(rows) ==
  [i \in DOMAIN rows |-> CodeOrNameNumber(rows[i].code, rows[i].name)]

\* C12: when the sprints of the store carry, in creation order, the numbers
\* 2, 2 and 5, normalization succeeds and leaves them, in that order, with
\* the codes sprint-2, sprint-6 and sprint-5.
C12_DuplicateRenumberedAboveAll ==
  \A env \in SeededEnvironments :
     LET migrated == migrate_legacy_json_if_needed(Db, env.legacy, clock, env.checked) IN
     (/\ migrated.result = "ok"
      /\ Numbers(OrderByCreatedAt(migrated.db.sprints)) = << <<"2">>, <<"2">>, <<"5">> >>)
       => LET after == ensure_sprint_codes_db(
                         ensure_default_categories_db(migrated.db, clock), env.checked)
          IN  /\ after.result = "ok"
              /\ LET sorted == OrderByCreatedAt(after.db.sprints) IN
                  [i \in DOMAIN sorted |-> sorted[i].code]
                   = <<<<"s", "p", "r", "i", "n", "t", "-", "2">>, <<"s", "p", "r", "i", "n", "t", "-", "6">>, <<"s", "p", "r", "i", "n", "t", "-", "5">>>>

\* The snapshot files an open may find
SnapshotFiles == {SnapshotPlain, SnapshotExtremes, SnapshotSameName, SnapshotNameNumber}

\* C13: the legacy import writes only into a store without categories,
\* sprints and entries.  In every state, migrate_legacy_json_if_needed changes
\* the store only if all three tables are empty, and on a non-empty store it
\* succeeds with nothing written whatever snapshot file exists; and no step
\* takes a non-empty store to an empty one, so that at most one step of a
\* behaviour imports.
C13_ImportOnlyIntoEmptyStore ==
  /\ [](\A legacy \in SnapshotFiles, checked \in BOOLEAN :
          LET migrated == migrate_legacy_json_if_needed(Db, legacy, clock, checked) IN
          /\ migrated.db # Db =>
               categories = <<>> /\ sprints = <<>> /\ entries = <<>>
          /\ ~(categories = <<>> /\ sprints = <<>> /\ entries = <<>>) =>
               migrated = [result |-> "ok", db |-> Db])
  /\ [][~(categories = <<>> /\ sprints = <<>> /\ entries = <<>>) =>
          ~(categories' = <<>> /\ sprints' = <<>> /\ entries' = <<>>)]_vars

\* C13 witness: a store that holds the sprints of an imported snapshot and a
\* row created by a later command, whose open found the store non-empty
C13_Witness ==
  /\ opened
  /\ <<"s", "2">> \in Ids(sprints)
  /\ \E i \in DOMAIN entries : entries[i].id = next_id(S_entry, 1)

\* C14: a failed legacy import leaves nothing behind.  Whenever the import
\* of an open fails (an insert is refused, or the snapshot's sprint numbers
\* overflow), the store after the import and after the open is the store
\* before it, which is empty: no row of the snapshot and no default category
\* is stored, the open fails with the import's failure, and the next open
\* finds the store empty and runs the import again.
C14_FailedImportLeavesStoreEmpty ==
  \A legacy \in SnapshotFiles, checked \in BOOLEAN :
     LET migrated == migrate_legacy_json_if_needed(Db, legacy, clock, checked) IN
     migrated.result # "ok" =>
       /\ migrated.db = Db
       /\ db_is_empty(migrated.db)
       /\ open_db(Db, legacy, clock, checked) = migrated
       /\ list_command(Db, open_db(Db, legacy, clock, checked))
            = Out(migrated.result, EmptyDb, FALSE)
       /\ migrate_legacy_json_if_needed(migrated.db, legacy, clock + 1, checked).result
            = migrated.result

\* C14 witness: an empty, never opened store for which the import of a
\* snapshot fails on an entry after categories and sprints were inserted
C14_Witness ==
  /\ ~opened
  /\ db_is_empty(Db)
  /\ \E legacy \in SnapshotFiles :
        /\ migrate_legacy_json_if_needed(Db, legacy, clock, FALSE).result
             = "failed to migrate entry"
        /\ MigrateSprints(MigrateCategories(Db, legacy.categories), legacy.sprints, clock)
             # Db

\* The days on which the selector is asked
SelectorDays == TodayInputs \cup {<<"2", "0", "2", "3", "-", "1", "2", "-", "0", "1">>, <<"2", "0", "2", "4", "-", "0", "1", "-", "2", "0">>}

\* C15: pick_active_sprint_id returns none exactly for the empty list;
\* otherwise it returns the id of a sprint that has the greatest created_at
\* among the sprints with start_date <= today and end_date absent or
\* >= today, or, when no sprint is in that window, the greatest created_at
\* of all.  Dates are compared as the stored YYYY-MM-DD strings.  The list is
\* the sprints table in storage order and in the order of list_sprints_db.
C15_PickActiveSprint ==
  \A today \in SelectorDays, list \in {sprints, OrderByCreatedAt(sprints)} :
     LET picked == pick_active_sprint_id(list, today)
         window == {j \in DOMAIN list :
                      /\ StrLeq(list[j].start_date, today)
                      /\ list[j].end_date # None => StrLeq(today, list[j].end_date)}
     IN  /\ picked = None <=> list = <<>>
         /\ list # <<>> =>
              \E i \in DOMAIN list :
                 /\ list[i].id = picked
                 /\ IF window # {}
                    THEN /\ i \in window
                         /\ \A j \in window : list[j].created_at <= list[i].created_at
                    ELSE \A j \in DOMAIN list : list[j].created_at <= list[i].created_at

\* C15 witness: a store with sprints of different age where on one day two
\* of them are in the window and the older one is stored first, and on
\* another day none is
C15_Witness ==
  /\ opened
  /\ \E today \in SelectorDays :
        \E i, j \in DOMAIN sprints :
           /\ i < j
           /\ sprints[i].created_at < sprints[j].created_at
           /\ \A k \in {i, j} :
                 /\ StrLeq(sprints[k].start_date, today)
                 /\ sprints[k].end_date # None => StrLeq(today, sprints[k].end_date)
           /\ pick_active_sprint_id(sprints, today) = sprints[j].id
  /\ \E today \in SelectorDays :
        /\ \A k \in DOMAIN sprints : ~StrLeq(sprints[k].start_date, today)
        /\ pick_active_sprint_id(sprints, today) # sprints[1].id

\* C16: add_daily_entry stores an entry only when the title and the date
\* are non-empty after trimming and sprint_id and category_id are ids of
\* stored rows; then exactly one entry is appended, with the given sprint,
\* category and date and the trimmed title, and its details are absent when
\* the given details are absent or blank, never an empty string.  When it
\* fails the entries are as before.
C16_AddEntryContract ==
  \A env \in Environments, given \in NewDailyEntryInputs,
     details \in DetailsInputs \cup {Blank, <<>>} :
     LET conn == Connect(env)
         input == [given EXCEPT !.details = details]
         out == add_daily_entry(Db, conn, clock, env.checked, input)
     IN  IF out.result = "ok"
         THEN /\ Trim(input.title) # <<>>
              /\ Trim(input.date) # <<>>
              /\ input.sprint_id \in Ids(conn.db.sprints)
              /\ input.category_id \in Ids(conn.db.categories)
              /\ Len(out.db.entries) = Len(conn.db.entries) + 1
              /\ SubSeq(out.db.entries, 1, Len(conn.db.entries)) = conn.db.entries
              /\ LET entry == out.db.entries[Len(out.db.entries)] IN
                 /\ entry.sprint_id = input.sprint_id
                 /\ entry.category_id = input.category_id
                 /\ entry.date = input.date
                 /\ entry.title = Trim(input.title)
                 /\ entry.details # <<>>
                 /\ entry.details = None <=> (details = None \/ Trim(details) = <<>>)
                 /\ entry.details # None => entry.details = Trim(details)
         ELSE out.db.entries \in {entries, conn.db.entries}

\* C16 witness: a store that holds an entry added by the command, its title
\* and its details trimmed
C16_Witness ==
  /\ opened
  /\ \E i \in DOMAIN entries :
        /\ entries[i].id = next_id(S_entry, 1)
        /\ entries[i].title = <<"F", "i", "x">>
        /\ entries[i].details = <<"d">>

\* C17: update_sprint_name changes the name of the target sprint and
\* nothing else.  For a stored id the command succeeds and the store
\* afterwards differs from the opened store in that sprint's name only; for
\* an id that is not stored it returns "sprint not found" and the store is
\* the opened store.  And in every step from an opened store, opens and
\* renames alike, each sprint keeps its id, code, dates and created_at.
C17_RenameChangesNameOnly ==
  /\ [](\A env \in Environments, input \in UpdateSprintNameInputs :
          LET conn == Connect(env)
              out == update_sprint_name(Db, conn, clock, env.checked, input)
          IN  conn.result = "ok" =>
                IF Trim(input.id) \in Ids(conn.db.sprints)
                THEN /\ out.result = "ok"
                     /\ out.db.categories = conn.db.categories
                     /\ out.db.entries = conn.db.entries
                     /\ DOMAIN out.db.sprints = DOMAIN conn.db.sprints
                     /\ \A i \in DOMAIN conn.db.sprints :
                           out.db.sprints[i] =
                             IF conn.db.sprints[i].id = Trim(input.id)
                             THEN [conn.db.sprints[i] EXCEPT !.name = Trim(input.name)]
                             ELSE conn.db.sprints[i]
                ELSE /\ out.result = "sprint not found"
                     /\ out.db = conn.db)
  /\ [][opened =>
          /\ DOMAIN sprints' = DOMAIN sprints
          /\ \A i \in DOMAIN sprints :
                [sprints'[i] EXCEPT !.name = sprints[i].name] = sprints[i]]_vars

\* C17 witness: an opened store with a renamed sprint whose code
\* normalization had assigned
C17_Witness ==
  /\ opened
  /\ \E i \in DOMAIN sprints :
        /\ sprints[i].name = <<"9">>
        /\ sprints[i].code = <<"s", "p", "r", "i", "n", "t", "-", "3">>

\* Start dates as text with the calendar date they denote; y = 0 marks a
\* text that is no date
StartDateCases ==
  { [text |-> <<"2", "0", "2", "4", "-", "0", "1", "-", "0", "8">>, y |-> 2024, m |-> 1, d |-> 8],
    [text |-> <<" ", "2", "0", "2", "4", "-", "0", "2", "-", "2", "0", " ">>, y |-> 2024, m |-> 2, d |-> 20],
    [text |-> <<"2", "0", "2", "3", "-", "0", "2", "-", "2", "0">>, y |-> 2023, m |-> 2, d |-> 20],
    [text |-> <<"2", "0", "2", "3", "-", "1", "2", "-", "2", "5">>, y |-> 2023, m |-> 12, d |-> 25],
    [text |-> <<"2", "0", "2", "4", "-", "1", "-", "8">>, y |-> 2024, m |-> 1, d |-> 8],
    [text |-> <<"s", "o", "o", "n">>, y |-> 0, m |-> 0, d |-> 0],
    [text |-> <<"2", "0", "2", "4", "-", "0", "2", "-", "3", "0">>, y |-> 0, m |-> 0, d |-> 0],
    [text |-> <<"2", "0", "2", "4", "-", "1", "3", "-", "0", "1">>, y |-> 0, m |-> 0, d |-> 0],
    [text |-> <<"0", "8", "/", "0", "1", "/", "2", "0", "2", "4">>, y |-> 0, m |-> 0, d |-> 0],
    [text |-> <<" ">>, y |-> 0, m |-> 0, d |-> 0] }

\* The number of the day y-m-d in the proleptic Gregorian calendar
DayNumber(y, m, d) ==
  LET yy == IF m <= 2 THEN y - 1 ELSE y
      mm == IF m <= 2 THEN m + 12 ELSE m
  IN  365 * yy + (yy \div 4) - (yy \div 100) + (yy \div 400)
        + ((153 * (mm - 3) + 2) \div 5) + d

\* The day number of a date written YYYY-MM-DD, -1 for any other text
TextDayNumber(text) ==
  IF /\ Len(text) = 10
     /\ text[5] = "-" /\ text[8] = "-"
     /\ \A i \in {1, 2, 3, 4, 6, 7, 9, 10} : IsDigit(text[i])
  THEN LET y == DigitsValue(SubSeq(text, 1, 4))
           m == DigitsValue(SubSeq(text, 6, 7))
           d == DigitsValue(SubSeq(text, 9, 10))
       IN  IF m \in 1..12 /\ d \in 1..DaysInMonth(y, m) THEN DayNumber(y, m, d) ELSE -1
  ELSE -1

\* C18: create_sprint succeeds only for a duration of 7 or 14 days, 14 when
\* none is given, and a start date that is a calendar date; the sprint it
\* then appends has the trimmed start date and, as end date, the date
\* duration - 1 days after it, written YYYY-MM-DD.  For any other duration or
\* a text that is no date it fails with the matching message and the
\* sprints are as before.
C18_CreateSprintDates ==
  \A env \in Environments, start \in StartDateCases,
     duration_days \in {<<>>, <<7>>, <<14>>, <<0>>, <<10>>, <<15>>} :
     LET conn == Connect(env)
         input == [name |-> None, start_date |-> start.text,
                   duration_days |-> duration_days]
         out == create_sprint(Db, conn, clock, env.checked, input)
         days == IF duration_days = <<>> THEN 14 ELSE duration_days[1]
     IN  /\ out.result = "ok" =>
              /\ start.y # 0
              /\ days \in {7, 14}
              /\ Len(out.db.sprints) = Len(conn.db.sprints) + 1
              /\ SubSeq(out.db.sprints, 1, Len(conn.db.sprints)) = conn.db.sprints
              /\ LET sprint == out.db.sprints[Len(out.db.sprints)] IN
                 /\ sprint.start_date = Trim(start.text)
                 /\ sprint.end_date # None
                 /\ TextDayNumber(sprint.end_date)
                      = DayNumber(start.y, start.m, start.d) + days - 1
         /\ out.result # "ok" => out.db.sprints \in {sprints, conn.db.sprints}
         /\ start.y = 0 =>
              out.result \in {"start_date is required",
                              "start_date must be in YYYY-MM-DD format"}
         /\ (start.y # 0 /\ days \notin {7, 14}) =>
              out.result = "duration_days must be 7 or 14"

\* C18 witness: a store with a sprint that the command created from
\* 2024-01-08 with the default duration
C18_Witness ==
  /\ opened
  /\ \E i \in DOMAIN sprints :
        /\ sprints[i].id = next_id(S_sprint, 1)
        /\ sprints[i].start_date = <<"2", "0", "2", "4", "-", "0", "1", "-", "0", "8">>
        /\ sprints[i].end_date = <<"2", "0", "2", "4", "-", "0", "1", "-", "2", "1">>

\* C19 as stated: the date sections of a report ascend by date, the category
\* subsections of a date ascend by category display name, every bullet is
\* the bullet of an entry of the sprint under its date and its category, and
\* the bullets of the whole document follow one another in ascending
\* (date, category_id, created_at) order
C19_BulletsByCategoryId ==
  \A env \in ReportEnvironments : \A input \in ReportInputs :
     LET report == generate_report(Db, Connect(env), clock, input)
         md == report.markdown
         Sections == {n \in DOMAIN md : StartsWith(md[n], <<"#", "#", " ">>)}
         Subsections == {n \in DOMAIN md : StartsWith(md[n], <<"#", "#", "#", " ">>)}
         Bullets == {n \in DOMAIN md : /\ StartsWith(md[n], <<"-", " ">>)
                                       /\ \E m \in Sections : m < n}
         Last(heads, n) == CHOOSE m \in heads : m < n /\ \A k \in heads : k < n => k <= m
         DateOf(n) == Drop(md[Last(Sections, n)], 3)
         LabelOf(n) == Drop(md[Last(Subsections, n)], 4)
         EntryOf(n) == CHOOSE e \in Range(entries) :
                          e.sprint_id = input.sprint_id /\ BulletLine(e) = md[n]
         Before(a, b) ==
           \/ StrLess(a.date, b.date)
           \/ a.date = b.date /\ StrLess(a.category_id, b.category_id)
           \/ a.date = b.date /\ a.category_id = b.category_id
                /\ a.created_at < b.created_at
     IN  report.result = "ok" =>
           /\ \A m, n \in Sections : m < n => StrLess(Drop(md[m], 3), Drop(md[n], 3))
           /\ \A m, n \in Subsections :
                 m < n /\ DateOf(m) = DateOf(n) => StrLess(Drop(md[m], 4), Drop(md[n], 4))
           /\ \A n \in Bullets :
                 /\ \E e \in Range(entries) :
                       e.sprint_id = input.sprint_id /\ BulletLine(e) = md[n]
                 /\ EntryOf(n).date = DateOf(n)
                 /\ \E c \in Range(report.db.categories) :
                       c.id = EntryOf(n).category_id /\ c.name = LabelOf(n)
           /\ \A m, n \in Bullets : m < n => ~Before(EntryOf(n), EntryOf(m))

\* C19, amended: the date sections of a report ascend by date, the category
\* subsections of a date ascend by category display name, every bullet is
\* the bullet of an entry of the sprint under its date and its category, and
\* the bullets of the whole document follow one another in ascending
\* (date, category display name, category_id, created_at) order, whatever
\* the storage order of the entries
C19_BulletsByDisplayName ==
  \A env \in ReportEnvironments : \A input \in ReportInputs :
     LET report == generate_report(Db, Connect(env), clock, input)
         md == report.markdown
         Sections == {n \in DOMAIN md : StartsWith(md[n], <<"#", "#", " ">>)}
         Subsections == {n \in DOMAIN md : StartsWith(md[n], <<"#", "#", "#", " ">>)}
         Bullets == {n \in DOMAIN md : /\ StartsWith(md[n], <<"-", " ">>)
                                       /\ \E m \in Sections : m < n}
         Last(heads, n) == CHOOSE m \in heads : m < n /\ \A k \in heads : k < n => k <= m
         DateOf(n) == Drop(md[Last(Sections, n)], 3)
         LabelOf(n) == Drop(md[Last(Subsections, n)], 4)
         EntryOf(n) == CHOOSE e \in Range(entries) :
                          e.sprint_id = input.sprint_id /\ BulletLine(e) = md[n]
         NameOf(e) == (CHOOSE c \in Range(report.db.categories) :
                          c.id = e.category_id).name
         Before(a, b) ==
           \/ StrLess(a.date, b.date)
           \/ a.date = b.date /\ StrLess(NameOf(a), NameOf(b))
           \/ a.date = b.date /\ NameOf(a) = NameOf(b)
                /\ StrLess(a.category_id, b.category_id)
           \/ a.date = b.date /\ NameOf(a) = NameOf(b)
                /\ a.category_id = b.category_id /\ a.created_at < b.created_at
     IN  report.result = "ok" =>
           /\ \A m, n \in Sections : m < n => StrLess(Drop(md[m], 3), Drop(md[n], 3))
           /\ \A m, n \in Subsections :
                 m < n /\ DateOf(m) = DateOf(n) => StrLess(Drop(md[m], 4), Drop(md[n], 4))
           /\ \A n \in Bullets :
                 /\ \E e \in Range(entries) :
                       e.sprint_id = input.sprint_id /\ BulletLine(e) = md[n]
                 /\ EntryOf(n).date = DateOf(n)
                 /\ NameOf(EntryOf(n)) = LabelOf(n)
           /\ \A m, n \in Bullets : m < n => ~Before(EntryOf(n), EntryOf(m))

\* C19: a store whose unfiltered report of a sprint has, under one date, two
\* bullets of one category stored newest first and a bullet of a category
\* whose id sorts before that category's id and whose name sorts after its
\* name; the report lists the older entry, the newer one, then the third
C19_Witness ==
  \E env \in ReportEnvironments : \E input \in ReportInputs :
     LET report == generate_report(Db, Connect(env), clock, input)
         md == report.markdown
     IN  /\ report.result = "ok"
         /\ input.from_date = None /\ input.to_date = None /\ input.categories = <<>>
         /\ \E i, j, k \in DOMAIN entries : \E l, m, n \in DOMAIN md :
               /\ i < j
               /\ entries[i].created_at > entries[j].created_at
               /\ entries[i].date = entries[j].date
               /\ entries[k].date = entries[j].date
               /\ entries[i].category_id = entries[j].category_id
               /\ StrLess(entries[k].category_id, entries[j].category_id)
               /\ l < m /\ m < n
               /\ md[l] = BulletLine(entries[j])
               /\ md[m] = BulletLine(entries[i])
               /\ md[n] = BulletLine(entries[k])

\* C20: a report of a sprint holds the bullet of an entry of the sprint
\* exactly when from_date <= date <= to_date, an absent bound setting no
\* limit, and the entry's category is in the filter, an absent or empty
\* filter admitting every category; every date heading of the report is the
\* date of an entry that passes.  The dates are compared as the stored
\* strings.
C20_ReportHoldsTheAdmittedEntries ==
  \A env \in ReportEnvironments : \A input \in ReportInputs :
     LET report == generate_report(Db, Connect(env), clock, input)
         Admitted(entry) ==
           /\ entry.sprint_id = input.sprint_id
           /\ input.from_date # None => StrLeq(input.from_date, entry.date)
           /\ input.to_date # None => StrLeq(entry.date, input.to_date)
           /\ \/ input.categories \in {<<>>, << <<>> >>}
              \/ \E k \in DOMAIN input.categories[1] :
                    input.categories[1][k] = entry.category_id
     IN  report.result = "ok" =>
           /\ \A i \in DOMAIN entries :
                 entries[i].sprint_id = input.sprint_id =>
                   (Admitted(entries[i])
                      <=> \E n \in DOMAIN report.markdown :
                             report.markdown[n] = BulletLine(entries[i]))
           /\ \A n \in DOMAIN report.markdown :
                 StartsWith(report.markdown[n], <<"#", "#", " ">>) =>
                   \E i \in DOMAIN entries :
                      /\ Admitted(entries[i])
                      /\ report.markdown[n] = <<"#", "#", " ">> \o entries[i].date
           /\ report.total_items = Cardinality({i \in DOMAIN entries : Admitted(entries[i])})

\* C20: a store with three entries and a report with both bounds and a
\* category filter that holds the bullet of one of them, another being left
\* out for its date alone and the third for its category alone
C20_Witness ==
  /\ Len(entries) = 3
  /\ \E env \in ReportEnvironments : \E input \in ReportInputs :
        LET report == generate_report(Db, Connect(env), clock, input)
            HasBullet(entry) == BulletLine(entry) \in Range(report.markdown)
        IN  /\ report.result = "ok"
            /\ input.from_date # None /\ input.to_date # None
            /\ input.categories # <<>> /\ input.categories[1] # <<>>
            /\ \E a, b, c \in Range(entries) :
                  /\ HasBullet(a) /\ ~HasBullet(b) /\ ~HasBullet(c)
                  /\ b.category_id = a.category_id /\ b.date # a.date
                  /\ c.date = a.date /\ c.category_id # a.category_id
            /\ Cardinality({n \in DOMAIN report.markdown :
                              StartsWith(report.markdown[n], <<"#", "#", " ">>)}) = 1

\* C21: two generate_report calls with the same sprint id, bounds and category
\* filter, made at different instants against stores that hold the same
\* sprints, the same categories and the same set of entries in whatever
\* storage order, return the same Markdown apart from the line of the export
\* timestamp
C21_ReportDeterministic ==
  \A env1, env2 \in ReportEnvironments :
     LET conn1 == Connect(env1)
         conn2 == Connect(env2)
         Stable(md) ==
           LET Kept(line) == ~StartsWith(line, <<"-", " ", "E", "x", "p", "o", "r", "t", "e", "d", " ", "A", "t", ":", " ">>)
           IN  SelectSeq(md, Kept)
     IN  /\ conn1.db.sprints = conn2.db.sprints
         /\ conn1.db.categories = conn2.db.categories
         /\ Range(conn1.db.entries) = Range(conn2.db.entries)
         => \A id \in Ids(conn1.db.sprints) : \A f \in ReportFilters :
               LET input == [sprint_id |-> id, from_date |-> f.from_date,
                             to_date |-> f.to_date, categories |-> f.categories]
                   first == generate_report(Db, conn1, clock, input)
                   second == generate_report(Db, conn2, clock + 1, input)
               IN  first.result = "ok" /\ second.result = "ok"
                     => Stable(first.markdown) = Stable(second.markdown)

\* C22: whatever sprints a legacy import has placed in the store, the
\* normalization of the open that follows succeeds: no code update is refused
\* by the uniqueness of code, and the sprints end fully renumbered
C22_NormalizationNeverFails ==
  \A env \in SeededEnvironments :
     LET migrated == migrate_legacy_json_if_needed(Db, env.legacy, clock, env.checked) IN
     migrated.result = "ok" =>
       LET seeded == ensure_default_categories_db(migrated.db, clock)
           after == ensure_sprint_codes_db(seeded, env.checked)
       IN  /\ after.result = "ok"
           /\ Connect(env).result = "ok"
           /\ \A i \in DOMAIN after.db.sprints :
                 sprint_number(after.db.sprints[i].code) # None
                   /\ after.db.sprints[i].code
                        = format_sprint_code(sprint_number(after.db.sprints[i].code))

\* C23: when normalization succeeds, every sprint whose number (that of its
\* code, else of its name) is parseable and held by no other sprint keeps
\* that number in its code; a sprint that ends with another number had none
\* or had the number of an earlier-created sprint, and its new number is
\* above the numbers of all sprints
C23_OnlyCollidingRenumberedUpward ==
  \A env \in SeededEnvironments :
     LET migrated == migrate_legacy_json_if_needed(Db, env.legacy, clock, env.checked) IN
     migrated.result = "ok" =>
       LET seeded == ensure_default_categories_db(migrated.db, clock)
           after == ensure_sprint_codes_db(seeded, env.checked)
           rows == OrderByCreatedAt(seeded.sprints)
           before == Numbers(rows)
           CodeAfter(i) == (CHOOSE sprint \in Range(after.db.sprints) :
                               sprint.id = rows[i].id).code
       IN  after.result = "ok" =>
             \A i \in DOMAIN rows :
                /\ (before[i] # None /\ \A j \in DOMAIN rows \ {i} : before[j] # before[i])
                     => CodeAfter(i) = format_sprint_code(before[i])
                /\ (before[i] = None \/ CodeAfter(i) # format_sprint_code(before[i]))
                     => /\ before[i] = None \/ \E j \in 1..(i - 1) : before[j] = before[i]
                        /\ \A j \in DOMAIN rows :
                              before[j] # None
                                => NumLess(before[j], sprint_number(CodeAfter(i)))

\* C24: the import of a snapshot into the empty store, every entry of which
\* names a category that the import stores, succeeds, and it writes an entry
\* only if the sprint the entry names is stored; an entry whose sprint was
\* skipped or not inserted is skipped
C24_EntriesOfMissingSprintsSkipped ==
  \A legacy \in SnapshotFiles \cup {SnapshotSameCode} : \A checked \in BOOLEAN :
     LET data == ensure_default_categories(legacy, clock)
         stored == MigrateCategories(
                     Db, SynthesizeCategories(data.categories, data.entries, clock))
         migrated == migrate_legacy_json_if_needed(Db, legacy, clock, checked)
     IN  (/\ db_is_empty(Db)
          /\ \A i \in DOMAIN data.entries :
                data.entries[i].category_id \in Ids(stored.categories))
           => /\ migrated.result = "ok"
              /\ \A i \in DOMAIN migrated.db.entries :
                    migrated.db.entries[i].sprint_id \in Ids(migrated.db.sprints)
              /\ \A i \in DOMAIN data.entries :
                    data.entries[i].sprint_id \notin Ids(migrated.db.sprints)
                      => \A j \in DOMAIN migrated.db.entries :
                            migrated.db.entries[j].title # data.entries[i].title

\* C25: for every snapshot, assign_missing_sprint_codes gives each sprint the
\* code that the scan of ensure_sprint_codes_db gives it, so that no two
\* sprints of the snapshot share a code afterwards and the import stores
\* every sprint of the snapshot
C25_SnapshotPassIsNormalization ==
  \A legacy \in SeededSnapshots : \A checked \in BOOLEAN :
     LET coded == assign_missing_sprint_codes(legacy.sprints, checked)
         plan == PlanSprintCodes(OrderByCreatedAt(legacy.sprints), {}, <<"0">>, <<>>,
                                 checked)
         Normalized(sprint) ==
           IF \E k \in DOMAIN plan.updates : plan.updates[k].id = sprint.id
           THEN (CHOOSE u \in Range(plan.updates) : u.id = sprint.id).code
           ELSE sprint.code
         migrated == migrate_legacy_json_if_needed(Db, legacy, clock, checked)
     IN  ~coded.panic /\ ~plan.panic =>
           /\ \A i \in DOMAIN coded.sprints :
                 coded.sprints[i].code = Normalized(legacy.sprints[i])
           /\ \A i, j \in DOMAIN coded.sprints :
                 i # j => coded.sprints[i].code # coded.sprints[j].code
           /\ db_is_empty(Db) =>
                /\ migrated.result = "ok"
                /\ Ids(migrated.db.sprints) = Ids(legacy.sprints)

\* C26: the import of a snapshot into the empty store, every listed category
\* of which is stored, succeeds, and each entry it writes whose category_id is
\* not the id of a category of the snapshot references a stored category with
\* that id and the humanized id as its name
C26_UnlistedCategoriesSynthesized ==
  \A legacy \in SnapshotFiles \cup {SnapshotClashingName} : \A checked \in BOOLEAN :
     LET data == ensure_default_categories(legacy, clock)
         migrated == migrate_legacy_json_if_needed(Db, legacy, clock, checked)
     IN  (/\ db_is_empty(Db)
          /\ Ids(data.categories) \subseteq Ids(MigrateCategories(Db, data.categories).categories))
           => /\ migrated.result = "ok"
              /\ \A i \in DOMAIN migrated.db.entries :
                    LET entry == migrated.db.entries[i] IN
                    entry.category_id \notin Ids(data.categories)
                      => \E c \in Range(migrated.db.categories) :
                            /\ c.id = entry.category_id
                            /\ c.name = humanize_category_id(entry.category_id)

\* C27: an open of the store, by a command of the desktop client or by the
\* terminal client, runs the legacy import (on an empty store beside a
\* snapshot file), then the seeding of the default categories, then the
\* normalization of the sprint codes.  The desktop client's open_db yields
\* the outcome of these steps in this order; the terminal client's open of an
\* empty store beside a snapshot file leaves the sprints and entries that the
\* steps leave, and seeds no category when the import fails.
C27_OpenStepsInOrder ==
  \A env \in Environments :
     LET migrated == migrate_legacy_json_if_needed(Db, env.legacy, clock, env.checked)
         seeded == ensure_default_categories_db(migrated.db, clock)
         steps == IF migrated.result # "ok" THEN migrated
                  ELSE ensure_sprint_codes_db(seeded, env.checked)
         cli == cli_open_db(Db, clock)
     IN  /\ Connect(env) = steps
         /\ db_is_empty(Db) /\ env.legacy.exists =>
              IF steps.result = "ok"
              THEN cli.sprints = steps.db.sprints /\ cli.entries = steps.db.entries
              ELSE cli.categories = <<>>

\* C28: after a successful open_db every sprint of the store has a code of
\* the form sprint-N, N an integer written without leading zeros and at
\* least 1
C28_CodesCanonicalAfterOpen ==
  \A env \in Environments :
     LET conn == Connect(env) IN
     conn.result = "ok" =>
       \A i \in DOMAIN conn.db.sprints :
          LET code == conn.db.sprints[i].code IN
          /\ sprint_number(code) # None
          /\ code = format_sprint_code(sprint_number(code))
          /\ sprint_number(code) # <<"0">>

\* C29: delete_sprint never empties the sprints.  In a store with exactly one
\* sprint, that sprint is the active one whatever the day, and no delete_sprint
\* succeeds or changes the sprints; and no step of any command takes a store
\* with a sprint to a store without one.
C29_SprintsNeverEmptied ==
  /\ [](\A env \in Environments, input \in DeleteSprintInputs, today \in SelectorDays :
          LET conn == Connect(env)
              out == delete_sprint(Db, conn, clock, env.checked, input, today)
          IN  (conn.result = "ok" /\ Len(conn.db.sprints) = 1) =>
                /\ pick_active_sprint_id(OrderByCreatedAt(conn.db.sprints), today)
                     = conn.db.sprints[1].id
                /\ out.result # "ok"
                /\ out.db.sprints = conn.db.sprints)
  /\ [][sprints # <<>> => sprints' # <<>>]_vars

\* C29 witness: a store left with one sprint after the other sprint of the
\* snapshot was deleted; deleting the last one is refused on a day outside
\* its window as on a day inside it
C29_Witness ==
  /\ opened
  /\ Len(sprints) = 1
  /\ sprints[1].id = <<"s", "2">>
  /\ \A today \in SelectorDays :
        delete_sprint(Db, Connect([legacy |-> NoFile, checked |-> FALSE]), clock, FALSE,
                      [id |-> sprints[1].id], today).result
          = "cannot delete the active sprint"
  /\ \E today \in SelectorDays : ~Ongoing(sprints[1], today)

\* C30: whenever the delete_category invocations of the two callers have
\* completed on an opened store, whatever the interleaving of their
\* statements, the store holds at least one category
C30_CategoryLeftAfterConcurrentDeletes ==
  (opened /\ \A caller \in Callers : deleting[caller].pc = "idle")
    => categories # <<>>

====
